---- MODULE Spec2Model ----
(***************************************************************************)
(* Model of the command-routing core of the Discord -> n8n bot:            *)
(*   - ConcurrentRequestManager (services/circuitBreakerManager.js,        *)
(*     second class of the file): bounded admission with a FIFO queue;      *)
(*   - N8NRouter.routeCommand (services/n8nRouter.js) with the             *)
(*     EndpointManager / RoutingTableBuilder lookup, the per-command        *)
(*     opossum circuit breaker configured by                                *)
(*     CircuitBreakerManager.createCircuitBreaker, and the axios-retry     *)
(*     client configured by RequestHandler.initializeAxios.                 *)
(*                                                                         *)
(* JavaScript runs handlers to completion: an async function runs          *)
(* synchronously up to its first await that actually suspends, so each     *)
(* action below is one such run-to-completion segment.                      *)
(***************************************************************************)
EXTENDS Integers, Sequences, FiniteSets, Bags, TLC

(***************************************************************************)
(* Bounds of the model.                                                     *)
(***************************************************************************)
\* request ids handed to ConcurrentRequestManager.executeRequest
NumRequests == 4
\* largest maxConcurrentRequests / queueSize the limiter is configured with
CrmMaxConcurrent == 2
CrmQueueSize == 2

\* the configuration the router is modelled with: maxConcurrentRequests,
\* circuitBreakerThreshold, retryAttempts
RouterMaxConcurrent == 2
VolumeThreshold == 2
RetryAttempts == 1
\* buckets of the breakers' rolling statistics windows, and calls the router
\* hands to its breakers within one bucket interval
WindowBuckets == 2
MaxFiresPerBucket == 1
\* setEndpointConfig / removeEndpointConfig / reloadEndpoints calls in one behaviour
MaxConfigChanges == 2
\* polls of the wait loop of N8NRouter.shutdown() before its 30 s are over
ShutdownTimeoutPolls == 2
\* interval timers a HealthMonitor creates before it is no longer followed
MaxMonitorTimers == 3
\* successful initialize() calls of the ServiceManager in one behaviour
MaxInitializations == 2

VARIABLES
  \* ---- ConcurrentRequestManager ----
  crmConfig,          \* this.config
  crmActiveRequests,  \* keys of this.activeRequests (a Map)
  requestQueue,       \* this.requestQueue, FIFO of request ids
  crmStats,           \* this.stats (activeCount, queuedCount, rejectedCount>0, timeoutCount>0)
  reqStatus,          \* per request id: where the promise returned by executeRequest stands
  crmEvents,          \* the events the limiter emitted in the last step, in order
  queueTimers,        \* request ids whose queue-timeout timer (queueEntry.timeout) is pending
  \* ---- N8NRouter and its component services ----
  routerConfig,       \* options shared by N8NRouter, CircuitBreakerManager, RequestHandler
  routingTable,       \* RoutingTableBuilder.routingTable: commandType -> endpoint config
  activeRequests,     \* N8NRouter.activeRequests: the calls suspended inside routeCommand
                      \* (a bag of call records; the request ids themselves are left out)
  circuitBreakers,    \* CircuitBreakerManager.circuitBreakers: endpointKey -> breaker
  settled,            \* the routeCommand call that returned or threw in the last step
                      \* (IdleCall when none did)
  \* ---- EnvironmentManager, EndpointManager, RoutingTableBuilder ----
  configFile,         \* endpoints.json: base endpoints, the active environment's override
                      \* block, and whether EndpointManager can read the raw file
  envVariables,       \* loadEnvironmentVariables(): endpointUrls, endpointTimeouts
  endpointsConfig,    \* EndpointManager.endpointsConfig, in the order of Object.keys
  environmentsConfig, \* EndpointManager.environmentsConfig[environment].overrides.endpoints
  registered,         \* the routing tables the route:registered listeners of the last
                      \* buildRoutingTable could read, in the order of the events
  configChanges,      \* number of setEndpointConfig / removeEndpointConfig / reloadEndpoints calls
  \* ---- ResponseNormalizers ----
  response,           \* the response handed to parseResponseData: [data, commandType]
  parsed,             \* what parseResponseData returned for it (NotParsed before the call)
  \* ---- health probes ----
  probe,              \* the N8NRouter.healthCheck call in flight (IdleProbe when none is)
  probeResult,        \* what the last healthCheck call returned
  \* ---- service lifecycle ----
  routerShutdown,     \* the N8NRouter.shutdown() call: where it stands, the polls of
                      \* its wait loop so far, the remainingRequests it reported
  \* ---- ResponseTransformer ----
  httpResponse,       \* the response handed to transformResponse: [status, statusText, data]
  transformed,        \* what transformResponse returned for it (NotTransformed before the call)
  \* ---- HealthMonitor ----
  monitor,            \* the HealthMonitor: isMonitoring, monitoringInterval, the
                      \* interval timers of the event loop, this.services, the
                      \* performHealthCheck calls suspended at an await, the last results
  listener,           \* the listener registered on the monitor: [event, call]
  monitored,          \* the services object startMonitoring is called with
  \* ---- ServiceManager ----
  manager,            \* the ServiceManager: initialized, services (name -> instance),
                      \* healthMonitor, concurrentRequestManager, the instances created
                      \* so far, the shutdown() calls waiting in n8nRouter.shutdown()
  returned            \* what the last call of the ServiceManager returned or threw

crmVars ==
  <<crmConfig, crmActiveRequests, requestQueue, crmStats, reqStatus, crmEvents, queueTimers>>
routerVars == <<routerConfig, routingTable, activeRequests, circuitBreakers, settled>>
cfgVars ==
  <<configFile, envVariables, endpointsConfig, environmentsConfig, registered, configChanges>>
parseVars == <<response, parsed>>
healthVars == <<probe, probeResult>>
transformVars == <<httpResponse, transformed>>
monitorVars == <<monitor, listener, monitored>>
managerVars == <<manager, returned>>
svcVars == <<routerShutdown, transformVars, monitorVars, managerVars>>
auxVars == <<cfgVars, parseVars, healthVars, svcVars>>

CrmIds == 1..NumRequests

\* a request id is free for a new executeRequest call when no call with it is pending
CrmSettled == {"idle", "completed", "failed", "timeout", "rejected", "shutdown"}

(***************************************************************************)
(* ConcurrentRequestManager                                                 *)
(***************************************************************************)
canExecuteImmediatelyMutC1(active, cfg) == TRUE
canExecuteImmediately(active, cfg) ==
  Cardinality(active) < cfg.maxConcurrentRequests

canQueueMutC20(queue, cfg) == TRUE
canQueue(queue, cfg) == Len(queue) < cfg.queueSize

\* removeFromQueue: splice the entry with this requestId out of the queue
removeFromQueueMutC19(queue, id) == queue
removeFromQueue(queue, id) ==
  SelectSeq(queue, LAMBDA e : e # id)

\* processQueue: this.requestQueue.shift()
ShiftMutC18(queue) == [entry |-> queue[Len(queue)], rest |-> SubSeq(queue, 1, Len(queue) - 1)]
Shift(queue) == [entry |-> Head(queue), rest |-> Tail(queue)]

\* this.emit(type, { requestId, ... })
Event(type, id) == [type |-> type, requestId |-> id]

\* the entries of a queue, and the place of an entry in it
QueueEntries(queue) == {queue[k] : k \in 1..Len(queue)}
QueuePlace(queue, id) == CHOOSE k \in 1..Len(queue) : queue[k] = id

\* processQueue: the early return is not taken
ShouldDequeueMutC27(queue, active, cfg) == FALSE
ShouldDequeue(queue, active, cfg) ==
  Len(queue) # 0 /\ canExecuteImmediately(active, cfg)

\* clearTimeout(entry.timeout) for the entries `ids`
ClearTimeoutMutC28(timers, ids) == timers
ClearTimeout(timers, ids) == timers \ ids

\* shutdown: entry.reject(new Error('Service shutting down')) for every entry
\* of the queue; rejecting a promise that is already settled changes nothing
ShutdownRejectMutC21(status, queue) == status
ShutdownReject(status, queue) ==
  [i \in DOMAIN status |->
     IF i \in QueueEntries(queue) /\ status[i] = "queued" THEN "shutdown" ELSE status[i]]

\* request functions that were started and have not settled
RunningFunctions == {i \in DOMAIN reqStatus : reqStatus[i] = "running"}

CrmInit ==
  /\ crmConfig \in [maxConcurrentRequests : 1..CrmMaxConcurrent,
                    queueSize : 0..CrmQueueSize,
                    queueTimeout : {0, 30000},
                    enableQueuing : BOOLEAN]
  /\ crmActiveRequests = {}
  /\ requestQueue = <<>>
  /\ crmStats = [activeCount |-> 0, queuedCount |-> 0,
                 rejected |-> FALSE, timedOut |-> FALSE]
  /\ reqStatus = [i \in CrmIds |-> "idle"]
  /\ crmEvents = <<>>
  /\ queueTimers = {}

\* executeRequest -> executeImmediately, up to `await requestFunction()`
CrmExecuteImmediately(id) ==
  /\ reqStatus[id] \in CrmSettled
  /\ canExecuteImmediately(crmActiveRequests, crmConfig)
  /\ crmActiveRequests' = crmActiveRequests \cup {id}
  /\ crmStats' = [crmStats EXCEPT !.activeCount = Cardinality(crmActiveRequests')]
  /\ reqStatus' = [reqStatus EXCEPT ![id] = "running"]
  /\ crmEvents' = <<Event("request:started", id)>>
  /\ UNCHANGED <<crmConfig, requestQueue, queueTimers, routerVars, auxVars>>

\* executeRequest -> queueRequest
CrmQueueRequest(id) ==
  /\ reqStatus[id] \in CrmSettled
  /\ ~canExecuteImmediately(crmActiveRequests, crmConfig)
  /\ crmConfig.enableQueuing
  /\ canQueue(requestQueue, crmConfig)
  /\ requestQueue' = Append(requestQueue, id)
  /\ crmStats' = [crmStats EXCEPT !.queuedCount = Len(requestQueue')]
  /\ reqStatus' = [reqStatus EXCEPT ![id] = "queued"]
  /\ crmEvents' = <<Event("request:queued", id)>>
  /\ queueTimers' = IF crmConfig.queueTimeout > 0 THEN queueTimers \cup {id} ELSE queueTimers
  /\ UNCHANGED <<crmConfig, crmActiveRequests, routerVars, auxVars>>

\* executeRequest: no slot and no queue capacity -> throw
CrmReject(id) ==
  /\ reqStatus[id] \in CrmSettled
  /\ ~canExecuteImmediately(crmActiveRequests, crmConfig)
  /\ ~(crmConfig.enableQueuing /\ canQueue(requestQueue, crmConfig))
  /\ crmStats' = [crmStats EXCEPT !.rejected = TRUE]
  /\ reqStatus' = [reqStatus EXCEPT ![id] = "rejected"]
  /\ crmEvents' = <<Event("request:rejected", id)>>
  /\ UNCHANGED <<crmConfig, crmActiveRequests, requestQueue, queueTimers, routerVars, auxVars>>

\* the request function of a running request settles: the rest of
\* executeImmediately (try/catch/finally) and the processQueue() call it
\* makes, which runs up to the `await requestFunction()` of the dequeued entry
CrmComplete(id, ok) ==
  /\ reqStatus[id] = "running"
  /\ LET active1 == crmActiveRequests \ {id}
         dequeue == ShouldDequeue(requestQueue, active1, crmConfig)
         head    == Shift(requestQueue).entry
     IN /\ crmActiveRequests' = IF dequeue THEN active1 \cup {head} ELSE active1
        /\ requestQueue' = IF dequeue THEN Shift(requestQueue).rest ELSE requestQueue
        /\ crmEvents' =
             <<Event(IF ok THEN "request:completed" ELSE "request:failed", id)>>
             \o (IF dequeue
                 THEN <<Event("request:dequeued", head), Event("request:started", head)>>
                 ELSE <<>>)
        /\ reqStatus' = [i \in CrmIds |->
                           IF i = id THEN (IF ok THEN "completed" ELSE "failed")
                           ELSE IF dequeue /\ i = head THEN "running"
                           ELSE reqStatus[i]]
        /\ crmStats' = [crmStats EXCEPT !.activeCount = Cardinality(crmActiveRequests'),
                                        !.queuedCount = Len(requestQueue')]
        /\ queueTimers' = IF dequeue THEN ClearTimeout(queueTimers, {head}) ELSE queueTimers
  /\ UNCHANGED <<crmConfig, routerVars, auxVars>>

\* the setTimeout callback armed by queueRequest fires (a timer that was
\* not cleared): removeFromQueue, timeoutCount++, emit, reject -- the reject
\* changes nothing when the promise is already settled or handed over
CrmQueueTimeout(id) ==
  /\ id \in queueTimers
  /\ queueTimers' = queueTimers \ {id}
  /\ requestQueue' = removeFromQueue(requestQueue, id)
  /\ crmStats' = [crmStats EXCEPT !.queuedCount = Len(requestQueue'), !.timedOut = TRUE]
  /\ reqStatus' = [reqStatus EXCEPT ![id] = IF @ = "queued" THEN "timeout" ELSE @]
  /\ crmEvents' = <<Event("request:timeout", id)>>
  /\ UNCHANGED <<crmConfig, crmActiveRequests, routerVars, auxVars>>

\* shutdown(): synchronous, from its first line to its last
CrmShutdownBody ==
  /\ queueTimers' = ClearTimeout(queueTimers, QueueEntries(requestQueue))
  /\ reqStatus' = ShutdownReject(reqStatus, requestQueue)
  /\ requestQueue' = <<>>
  /\ crmActiveRequests' = {}
  /\ crmStats' = [crmStats EXCEPT !.activeCount = 0, !.queuedCount = 0]
  /\ crmEvents' = <<Event("manager:shutdown", 0)>>
  /\ UNCHANGED crmConfig

CrmShutdown == CrmShutdownBody /\ UNCHANGED <<routerVars, auxVars>>

(***************************************************************************)
(* EndpointManager / RoutingTableBuilder                                    *)
(***************************************************************************)
Commands == {"scrape", "analyze", "notify", "nonexistent"}
HttpStatuses == {"2xx", "4xx", "503"}

Null == [null |-> TRUE]

\* RoutingTableBuilder.getRoute: this.routingTable.get(commandType) || null
getRoute(table, commandType) ==
  IF commandType \in DOMAIN table THEN table[commandType] ELSE Null

\* EndpointManager.getEndpointConfig: null for an unknown and for a disabled command
getEndpointConfig(table, commandType) ==
  LET config == getRoute(table, commandType)
  IN IF config = Null THEN Null
     ELSE IF ~config.enabled THEN Null
     ELSE config

\* EndpointManager.routeCommand: the routing info handed to the router
\* (retries: config.retries || 3)
EndpointRouteCommand(table, commandType) ==
  LET config == getEndpointConfig(table, commandType)
  IN IF config = Null THEN Null
     ELSE [commandType |-> commandType,
           retries |-> IF config.retries = 0 THEN 3 ELSE config.retries]

\* EndpointManager.routeCommand: the endpoint block of the routing info
RoutedEndpoint(table, commandType) ==
  LET config == getEndpointConfig(table, commandType)
  IN IF config = Null THEN Null
     ELSE [url |-> config.url,
           timeout |-> IF "timeout" \in DOMAIN config /\ config.timeout # 0
                       THEN config.timeout ELSE 30000,
           retries |-> IF "retries" \in DOMAIN config /\ config.retries # 0
                       THEN config.retries ELSE 3]

\* N8NRouter.routeCommand: the requestConfig built from the routing info (the
\* method is config.method || 'POST' and no endpoint of the model sets one;
\* the headers are a fresh object naming the command)
NoRequest == [method |-> "none", url |-> "none", timeout |-> 0, command |-> "none"]
RequestConfig(table, commandType) ==
  LET endpoint == RoutedEndpoint(table, commandType)
  IN IF endpoint = Null THEN NoRequest
     ELSE [method |-> "POST", url |-> endpoint.url, timeout |-> endpoint.timeout,
           command |-> commandType]

\* the request axios-retry puts on the wire for a further attempt of a call:
\* the config object of the first attempt
RetriedRequestMutC31(cl, table) == RequestConfig(table, cl.cmd)
RetriedRequest(cl, table) == cl.requestConfig

\* RoutingTableBuilder.isCommandSupported
isCommandSupported(table, commandType) ==
  IF commandType \notin DOMAIN table
  THEN [supported |-> FALSE, reason |-> "not_configured"]
  ELSE IF ~table[commandType].enabled
  THEN [supported |-> FALSE, reason |-> "disabled"]
  ELSE [supported |-> TRUE, reason |-> "none"]

(***************************************************************************)
(* The opossum breaker built by createCircuitBreaker with                   *)
(*   timeout = resetTimeout = circuitBreakerTimeout,                        *)
(*   errorThresholdPercentage = 50,                                         *)
(*   volumeThreshold = circuitBreakerThreshold.                             *)
(* A breaker is [state, pendingClose, window, resetTimer]: window is the    *)
(* rolling statistics window (newest bucket first), resetTimer says that    *)
(* the resetTimeout timer started by the last `open` is still pending.      *)
(***************************************************************************)
EmptyBucket == [fires |-> 0, failures |-> 0]

NewBreaker ==
  [state |-> "closed", pendingClose |-> FALSE,
   window |-> [i \in 1..WindowBuckets |-> EmptyBucket], resetTimer |-> FALSE]

RECURSIVE WindowFires(_)
WindowFires(w) == IF w = <<>> THEN 0 ELSE Head(w).fires + WindowFires(Tail(w))

RECURSIVE WindowFailures(_)
WindowFailures(w) == IF w = <<>> THEN 0 ELSE Head(w).failures + WindowFailures(Tail(w))

\* breaker.open(): also starts the resetTimeout timer (the 'open' listener)
BreakerOpen(br) ==
  IF br.state # "open"
  THEN [br EXCEPT !.state = "open", !.pendingClose = FALSE, !.resetTimer = TRUE]
  ELSE br

\* breaker.close(): also clears the resetTimeout timer
BreakerClose(br) ==
  IF br.state # "closed"
  THEN [br EXCEPT !.state = "closed", !.pendingClose = FALSE, !.resetTimer = FALSE]
  ELSE br

\* fire(): the call is executed when the breaker is closed, or half-open
\* with the trial call still to be made
BreakerAdmitsMutC2(br) == br.state # "halfOpen" \/ br.pendingClose
BreakerAdmits(br) == br.state = "closed" \/ br.pendingClose

\* fire(): count the call in the window; an admitted call uses up the
\* half-open trial
BreakerFireMutC4(br) == [br EXCEPT !.window[1].fires = @ + 1]
BreakerFire(br) ==
  LET counted == [br EXCEPT !.window[1].fires = @ + 1]
  IN IF BreakerAdmits(br) THEN [counted EXCEPT !.pendingClose = FALSE] ELSE counted

\* the action failed or timed out: count the failure, then open when
\* half-open, or when the window holds at least volumeThreshold calls and
\* more than 50% of them failed
BreakerFailMutC3(br, volumeThreshold) ==
  LET counted == [br EXCEPT !.window[1].failures = @ + 1]
  IN IF WindowFailures(counted.window) * 100 > 50 * WindowFires(counted.window)
        \/ counted.state = "halfOpen"
     THEN BreakerOpen(counted)
     ELSE counted
BreakerFail(br, volumeThreshold) ==
  LET counted  == [br EXCEPT !.window[1].failures = @ + 1]
      fires    == WindowFires(counted.window)
      failures == WindowFailures(counted.window)
  IN IF fires < volumeThreshold /\ counted.state # "halfOpen" THEN counted
     ELSE IF failures * 100 > 50 * fires \/ counted.state = "halfOpen"
     THEN BreakerOpen(counted)
     ELSE counted

\* the action succeeded: a half-open breaker closes
BreakerSuccessMutC5(br) == br
BreakerSuccess(br) ==
  IF br.state = "halfOpen" THEN BreakerClose(br) ELSE br

\* calls counted in the newest bucket of the breakers' windows
RECURSIVE SumNewestFires(_, _)
SumNewestFires(brs, keys) ==
  IF keys = {} THEN 0
  ELSE LET k == CHOOSE x \in keys : TRUE
       IN brs[k].window[1].fires + SumNewestFires(brs, keys \ {k})

NewestFires(brs) == SumNewestFires(brs, DOMAIN brs)

\* the breaker a command uses: circuitBreakerManager.getCircuitBreaker(commandType)
BreakerKeyMutC6(commandType) == "scrape"
BreakerKey(commandType) == commandType

(***************************************************************************)
(* RequestHandler: axios client with axios-retry                            *)
(***************************************************************************)
\* retryCondition of initializeAxios: 5xx and network errors, never 4xx
retryCondition(status) == status = "503"

\* axios-retry: retry while retryCondition holds and fewer than
\* `retries: this.config.retryAttempts` retries were made
ShouldRetry(status, retryCount, retryAttempts) ==
  /\ status # "2xx"
  /\ retryCondition(status)
  /\ retryCount < retryAttempts

\* the breaker wraps requestHandler.executeRequest, whose promise settles
\* only when the retrying client gives its final answer: an attempt that is
\* going to be retried is not seen by the breaker
AttemptReportedMutC7(retry) == TRUE
AttemptReported(retry) == ~retry

(***************************************************************************)
(* N8NRouter                                                                *)
(***************************************************************************)
\* a call: pc is where routeCommand stands ("rejected": the breaker refused
\* the call and routeCommand is suspended at `await circuitBreaker.fire`;
\* "executing": the breaker awaits the action; "done": it returned or
\* threw), http is the state of the axios exchange started for it, attempts
\* the HTTP requests sent, lastStatus the last answer received, firedState
\* the breaker state fire() found, successes / failures the outcomes the
\* breaker recorded for this call, outcome what routeCommand returned or
\* threw.
IdleCall ==
  [pc |-> "idle", cmd |-> "none", http |-> "none", attempts |-> 0,
   lastStatus |-> "none", firedState |-> "none",
   successes |-> 0, failures |-> 0, outcome |-> "none",
   requestConfig |-> NoRequest, sent |-> NoRequest, events |-> <<>>]

\* this.activeRequests.add(requestId) / .delete(requestId) / .size
ActiveAdd(active, cl) == active (+) SetToBag({cl})
ActiveDeleteMutC16(active, cl) == active
ActiveDelete(active, cl) == active (-) SetToBag({cl})
ActiveSize(active) == BagCardinality(active)

\* routeCommand: this.activeRequests.size >= this.config.maxConcurrentRequests
AtCapacityMutC17(active, cfg) == FALSE
AtCapacity(active, cfg) == ActiveSize(active) >= cfg.maxConcurrentRequests

\* the calls suspended inside routeCommand
InFlight == BagToSet(activeRequests)

\* a refused call resumes in a microtask: no timer and no I/O callback runs
\* while one is pending
NoMicrotaskPending == \A cl \in InFlight : cl.pc # "rejected"

\* the endpoints of the configuration file; `enabledCommands` are the ones
\* with enabled: true
EndpointsConfig(enabledCommands) ==
  [ct \in {"scrape", "analyze", "notify"} |->
     [url |-> "base:" \o ct, timeout |-> 30000, enabled |-> ct \in enabledCommands,
      retries |-> CASE ct = "scrape" -> 0 [] ct = "analyze" -> 2 [] ct = "notify" -> 1]]

RouterInit(maxConcurrentRequests, retryAttempts, enabledCommands) ==
  /\ routerConfig = [maxConcurrentRequests |-> maxConcurrentRequests,
                     circuitBreakerThreshold |-> VolumeThreshold,
                     retryAttempts |-> retryAttempts]
  /\ routingTable = EndpointsConfig(enabledCommands)
  /\ activeRequests = EmptyBag
  \* initializeCircuitBreakers: one breaker per available command
  /\ circuitBreakers = [k \in {BreakerKey(ct) : ct \in DOMAIN routingTable} |-> NewBreaker]
  /\ settled = IdleCall

\* routeCommand: getCircuitBreaker(commandType), and createCircuitBreaker
\* when the map holds none
BreakerForMutC35(breakers, key) == NewBreaker
BreakerFor(breakers, key) ==
  IF key \in DOMAIN breakers THEN breakers[key] ELSE NewBreaker

\* the event routeCommand emits on the way out: command:routed before it
\* returns the transformed response, circuit:fallback before it returns the
\* fallback from the inner catch, command:error in the outer catch
EmittedOnSettleMutC32(outcome) ==
  IF outcome = "result" THEN <<"command:routed">>
  ELSE IF outcome = "fallback_circuit_breaker" THEN <<"circuit:fallback", "command:error">>
  ELSE <<"command:error">>
EmittedOnSettle(outcome) ==
  IF outcome = "result" THEN <<"command:routed">>
  ELSE IF outcome = "fallback_circuit_breaker" THEN <<"circuit:fallback">>
  ELSE <<"command:error">>

\* routeCommand from its entry to its first suspension (or to its end when
\* it throws before `await circuitBreaker.fire`)
RouteCommand(commandType) ==
  /\ LET fresh         == [IdleCall EXCEPT !.cmd = commandType]
         routingInfo   == EndpointRouteCommand(routingTable, commandType)
         supportStatus == isCommandSupported(routingTable, commandType)
         requestConfig == RequestConfig(routingTable, commandType)
         key           == BreakerKey(commandType)
         breaker       == BreakerFor(circuitBreakers, key)
     IN IF AtCapacity(activeRequests, routerConfig)
        THEN /\ settled' = [fresh EXCEPT !.pc = "done", !.outcome = "error_max_concurrent",
                                         !.events = EmittedOnSettle("error_max_concurrent")]
             /\ UNCHANGED <<activeRequests, circuitBreakers>>
        ELSE IF routingInfo = Null
        THEN \* the id is added, the throw runs `finally`, the id is deleted
             /\ settled' = [fresh EXCEPT !.pc = "done", !.outcome = "error_no_endpoint",
                                         !.events = EmittedOnSettle("error_no_endpoint")]
             /\ UNCHANGED <<activeRequests, circuitBreakers>>
        ELSE IF ~supportStatus.supported
        THEN /\ settled' = [fresh EXCEPT !.pc = "done",
                               !.outcome = "error_command_is_" \o supportStatus.reason,
                               !.events = EmittedOnSettle("error_command_is_")]
             /\ UNCHANGED <<activeRequests, circuitBreakers>>
        ELSE /\ NewestFires(circuitBreakers) < MaxFiresPerBucket
             /\ circuitBreakers' =
                  [k \in DOMAIN circuitBreakers \cup {key} |->
                     IF k = key THEN BreakerFire(breaker) ELSE circuitBreakers[k]]
             /\ activeRequests' = ActiveAdd(activeRequests,
                  IF BreakerAdmits(breaker)
                  THEN [fresh EXCEPT !.pc = "executing", !.http = "inflight",
                                     !.attempts = 1, !.firedState = breaker.state,
                                     !.requestConfig = requestConfig,
                                     !.sent = requestConfig,
                                     !.events = <<"command:routing">>]
                  ELSE [fresh EXCEPT !.pc = "rejected", !.firedState = breaker.state,
                                     !.requestConfig = requestConfig,
                                     !.events = <<"command:routing">>])
             /\ settled' = IdleCall
  /\ UNCHANGED <<routerConfig, routingTable, crmVars, auxVars>>

\* what the catch around circuitBreaker.fire does with an error:
\* error.name is never 'OpenCircuitError' for an opossum error, so the
\* fallback is returned exactly when the breaker is open at that moment
CatchOutcome(br, error) ==
  IF br.state = "open" THEN "fallback_circuit_breaker" ELSE error

\* routeCommand resumes after the breaker refused the call
RejectContinue(cl) ==
  /\ cl.pc = "rejected"
  /\ LET outcome == CatchOutcome(circuitBreakers[BreakerKey(cl.cmd)], "error_breaker_open")
     IN settled' = [cl EXCEPT !.pc = "done", !.outcome = outcome,
                              !.events = @ \o EmittedOnSettle(outcome)]
  /\ activeRequests' = ActiveDelete(activeRequests, cl)
  /\ UNCHANGED <<routerConfig, routingTable, circuitBreakers, crmVars, auxVars>>

\* the downstream answers the HTTP attempt in flight: axios-retry decides
\* on a retry; otherwise the action settles, the breaker records the
\* outcome and routeCommand resumes
HttpRespond(cl, status) ==
  /\ NoMicrotaskPending
  /\ cl.pc = "executing"
  /\ cl.http = "inflight"
  /\ LET retry    == ShouldRetry(status, cl.attempts - 1, routerConfig.retryAttempts)
         reported == AttemptReported(retry)
         key      == BreakerKey(cl.cmd)
         br       == circuitBreakers[key]
         br1      == IF ~reported THEN br
                     ELSE IF status = "2xx" THEN BreakerSuccess(br)
                     ELSE BreakerFail(br, routerConfig.circuitBreakerThreshold)
         outcome  == IF status = "2xx" THEN "result" ELSE CatchOutcome(br1, "error_http")
         cl1      == [cl EXCEPT
                        !.lastStatus = status,
                        !.successes = IF reported /\ status = "2xx" THEN @ + 1 ELSE @,
                        !.failures = IF reported /\ status # "2xx" THEN @ + 1 ELSE @]
     IN /\ circuitBreakers' = [circuitBreakers EXCEPT ![key] = br1]
        /\ IF retry
           THEN /\ activeRequests' = ActiveAdd(ActiveDelete(activeRequests, cl),
                                               [cl1 EXCEPT !.http = "backoff"])
                /\ settled' = IdleCall
           ELSE /\ settled' = [cl1 EXCEPT
                     !.pc = "done", !.http = "finished", !.outcome = outcome,
                     !.events = @ \o EmittedOnSettle(outcome)]
                /\ activeRequests' = ActiveDelete(activeRequests, cl)
  /\ UNCHANGED <<routerConfig, routingTable, crmVars, auxVars>>

\* axios-retry's backoff delay is over: the next attempt is sent
RetryAttempt(cl) ==
  /\ NoMicrotaskPending
  /\ cl.http = "backoff"
  /\ activeRequests' = ActiveAdd(ActiveDelete(activeRequests, cl),
                                 [cl EXCEPT !.http = "inflight", !.attempts = @ + 1,
                                            !.sent = RetriedRequest(cl, routingTable)])
  /\ settled' = IdleCall
  /\ UNCHANGED <<routerConfig, routingTable, circuitBreakers, crmVars, auxVars>>

\* the breaker's `timeout` fires before the action settled: the breaker
\* records a failure and rejects, and routeCommand resumes.  The HTTP
\* exchange goes on, but neither the breaker nor the router looks at it
\* again, and the model stops following it ("abandoned").
BreakerTimeout(cl) ==
  /\ NoMicrotaskPending
  /\ cl.pc = "executing"
  /\ LET key     == BreakerKey(cl.cmd)
         br1     == BreakerFail(circuitBreakers[key], routerConfig.circuitBreakerThreshold)
         outcome == CatchOutcome(br1, "error_breaker_timeout")
     IN /\ circuitBreakers' = [circuitBreakers EXCEPT ![key] = br1]
        /\ settled' = [cl EXCEPT
             !.pc = "done", !.http = "abandoned", !.failures = @ + 1,
             !.outcome = outcome, !.events = @ \o EmittedOnSettle(outcome)]
  /\ activeRequests' = ActiveDelete(activeRequests, cl)
  /\ UNCHANGED <<routerConfig, routingTable, crmVars, auxVars>>

\* the resetTimeout timer of an open breaker fires.  timeout and
\* resetTimeout are the same circuitBreakerTimeout, and the timer of a call
\* was started before the breaker opened, so every call the breaker still
\* awaited has been timed out before this timer fires.
HalfOpenTimer(key) ==
  /\ NoMicrotaskPending
  /\ key \in DOMAIN circuitBreakers
  /\ circuitBreakers[key].state = "open"
  /\ circuitBreakers[key].resetTimer
  /\ \A cl \in InFlight : ~(cl.pc = "executing" /\ BreakerKey(cl.cmd) = key)
  /\ circuitBreakers' = [circuitBreakers EXCEPT
       ![key] = [@ EXCEPT !.state = "halfOpen", !.pendingClose = TRUE, !.resetTimer = FALSE]]
  /\ settled' = IdleCall
  /\ UNCHANGED <<routerConfig, routingTable, activeRequests, crmVars, auxVars>>

\* the bucket interval of the rolling windows elapses: every breaker drops
\* its oldest bucket (the breakers are created together by the constructor,
\* so their interval timers expire together)
RotateWindow ==
  /\ NoMicrotaskPending
  /\ \E key \in DOMAIN circuitBreakers :
        circuitBreakers[key].window # [i \in 1..WindowBuckets |-> EmptyBucket]
  /\ circuitBreakers' = [key \in DOMAIN circuitBreakers |->
       [circuitBreakers[key] EXCEPT
          !.window = <<EmptyBucket>> \o SubSeq(@, 1, WindowBuckets - 1)]]
  /\ settled' = IdleCall
  /\ UNCHANGED <<routerConfig, routingTable, activeRequests, crmVars, auxVars>>

(***************************************************************************)
(* What routeCommand hands to its caller                                    *)
(***************************************************************************)
\* the outcomes with which routeCommand rejects (throws)
ThrownOutcomes ==
  {"error_max_concurrent", "error_no_endpoint", "error_command_is_not_configured",
   "error_command_is_disabled", "error_breaker_open", "error_http",
   "error_breaker_timeout"}

\* a status the downstream answers with
StatusCode(status) ==
  CASE status = "2xx" -> 200 [] status = "4xx" -> 404 [] status = "503" -> 503

\* ResponseValidators.categorizeError
categorizeError(code) ==
  IF code >= 400 /\ code < 500 THEN "client_error"
  ELSE IF code >= 500 THEN "server_error"
  ELSE "unknown_error"

\* ResponseTransformer.transformResponse / transformErrorResponse: the
\* envelope built from an HTTP response (no `fallback` field is set)
transformResponse(code) ==
  IF code >= 400
  THEN [success |-> FALSE, status |-> code, type |-> categorizeError(code), fallback |-> FALSE]
  ELSE [success |-> TRUE, status |-> code, type |-> "none", fallback |-> FALSE]

\* FallbackResponseManager.createCircuitBreakerFallback
createCircuitBreakerFallback ==
  [success |-> FALSE, status |-> 503, type |-> "circuit_breaker_open", fallback |-> TRUE]

\* FallbackResponseManager.createRateLimitFallback
createRateLimitFallback ==
  [success |-> FALSE, status |-> 429, type |-> "rate_limit_exceeded", fallback |-> TRUE]

\* FallbackResponseManager.createServiceUnavailableFallback
createServiceUnavailableFallback ==
  [success |-> FALSE, status |-> 503, type |-> "service_unavailable", fallback |-> TRUE]

\* no envelope: the call threw, or has not returned
NoEnvelope == [success |-> FALSE, status |-> 0, type |-> "none", fallback |-> FALSE]

\* the envelope a settled call returned: axios resolves only for a 2xx
\* answer, so transformResponse is reached with a 2xx response only
Returned(cl) ==
  IF cl.outcome = "result" THEN transformResponse(StatusCode(cl.lastStatus))
  ELSE IF cl.outcome = "fallback_circuit_breaker" THEN createCircuitBreakerFallback
  ELSE NoEnvelope

\* the command is in the routing table with enabled: true
Routable(commandType) ==
  commandType \in DOMAIN routingTable /\ routingTable[commandType].enabled

\* every call the model holds a record of
Calls == InFlight \cup {settled}

(***************************************************************************)
(* Endpoint configuration: EnvironmentManager (endpoints.json merged with  *)
(* the environment's override block and the N8N_<COMMAND>_URL / _TIMEOUT   *)
(* variables), EndpointManager.endpointsConfig and the routing table       *)
(* RoutingTableBuilder builds from it.  An object is a function from its   *)
(* field names; endpointsConfig is the sequence of its [key, config]       *)
(* pairs in the order of Object.keys.                                      *)
(***************************************************************************)
\* process.env.NODE_ENV || 'development'
Environment == "development"

EmptyObject == [f \in {} |-> 0]

\* { ...a, ...b } (lodash merge does the same on these flat objects)
Spread(a, b) ==
  [f \in DOMAIN a \cup DOMAIN b |-> IF f \in DOMAIN b THEN b[f] ELSE a[f]]

\* envOverrides[commandType] || {}
OverrideOf(overrides, commandType) ==
  IF commandType \in DOMAIN overrides THEN overrides[commandType] ELSE EmptyObject

\* endpointSchema: the defaults Joi fills in for the fields a file entry leaves out
SchemaDefaults == [timeout |-> 30000, retries |-> 3, enabled |-> TRUE]

\* validateConfig applied to one entry of endpoints.json
ValidateEndpoint(raw) == Spread(SchemaDefaults, raw)

\* the endpoints block of endpoints.json, as written
FileEndpoints ==
  <<[key |-> "scrape", config |-> [url |-> "base:scrape", retries |-> 3]],
    [key |-> "analyze", config |-> [url |-> "base:analyze", timeout |-> 45000, retries |-> 2]],
    [key |-> "notify", config |-> [url |-> "base:notify", timeout |-> 15000, retries |-> 1,
                                   enabled |-> FALSE]]>>

\* the override blocks and environment variables a deployment may have
OverrideBlocks ==
  UNION {[keys -> {[url |-> "override:url"], [url |-> "override:url", timeout |-> 60000]}] :
           keys \in SUBSET {"scrape", "analyze"}}
EndpointUrlVariables ==
  UNION {[keys -> {"env:url"}] : keys \in SUBSET {"scrape", "analyze"}}
EndpointTimeoutVariables ==
  UNION {[keys -> {5000}] : keys \in SUBSET {"scrape"}}

\* Object.keys(endpointsConfig) and endpointsConfig[commandType]
Keys(config) == {config[i].key : i \in 1..Len(config)}
ConfigOf(config, commandType) ==
  config[CHOOSE i \in 1..Len(config) : config[i].key = commandType].config

\* EnvironmentManager.getEndpointConfig: base, then the override block, then
\* the environment variables
EnvironmentGetEndpointConfig(file, env, commandName) ==
  LET baseEndpoint   == ValidateEndpoint(ConfigOf(file.endpoints, commandName))
      mergedEndpoint == Spread(baseEndpoint, OverrideOf(file.overrides, commandName))
      withUrl        == IF commandName \in DOMAIN env.endpointUrls
                        THEN Spread(mergedEndpoint, [url |-> env.endpointUrls[commandName]])
                        ELSE mergedEndpoint
  IN IF commandName \in DOMAIN env.endpointTimeouts
     THEN Spread(withUrl, [timeout |-> env.endpointTimeouts[commandName]])
     ELSE withUrl

\* EnvironmentManager.getAllEndpoints
GetAllEndpoints(file, env) ==
  [i \in 1..Len(file.endpoints) |->
     [key |-> file.endpoints[i].key,
      config |-> EnvironmentGetEndpointConfig(file, env, file.endpoints[i].key)]]

\* EndpointManager.initializeEndpoints: the raw file is read again from
\* process.cwd()/config/endpoints.json for the environments block
RawOverrides(file) == IF file.rawReadable THEN file.overrides ELSE EmptyObject

\* RoutingTableBuilder.buildRoutingTable: the entry stored under commandType
FinalConfigMutC23(baseConfig, overrideConfig, commandType) ==
  Spread([commandType |-> commandType, environment |-> Environment],
         Spread(baseConfig, overrideConfig))
FinalConfig(baseConfig, overrideConfig, commandType) ==
  Spread(Spread(baseConfig, overrideConfig),
         [commandType |-> commandType, environment |-> Environment])

\* the routing table after clear() and the first n routingTable.set calls
TableAfter(config, overrides, n) ==
  [k \in {config[i].key : i \in 1..n} |->
     FinalConfig(ConfigOf(config, k), OverrideOf(overrides, k), k)]

BuildRoutingTable(config, overrides) == TableAfter(config, overrides, Len(config))

\* the table as it is when each route:registered event is emitted
RegisteredViews(config, overrides) ==
  [n \in 1..Len(config) |-> TableAfter(config, overrides, n)]

\* the configurations setEndpointConfig is called with
SetInputs ==
  {[enabled |-> FALSE],
   [commandType |-> "other", url |-> "set:url"],
   [url |-> "set:url", timeout |-> 20000, retries |-> 1, enabled |-> TRUE,
    commandType |-> "other"]}

\* new EndpointManager(): initializeEndpoints, then buildRoutingTable
EndpointsInit ==
  /\ configFile \in [endpoints : {FileEndpoints}, overrides : OverrideBlocks,
                     rawReadable : BOOLEAN]
  /\ envVariables \in [endpointUrls : EndpointUrlVariables,
                       endpointTimeouts : EndpointTimeoutVariables]
  /\ endpointsConfig = GetAllEndpoints(configFile, envVariables)
  /\ environmentsConfig = RawOverrides(configFile)
  /\ routingTable = BuildRoutingTable(endpointsConfig, environmentsConfig)
  /\ registered = RegisteredViews(endpointsConfig, environmentsConfig)
  /\ configChanges = 0

\* the rest of a configuration operation: buildRoutingTable on the new
\* endpointsConfig, its events included
Rebuild ==
  /\ configChanges' = configChanges + 1
  /\ routingTable' = BuildRoutingTable(endpointsConfig', environmentsConfig')
  /\ registered' = RegisteredViews(endpointsConfig', environmentsConfig')
  /\ settled' = IdleCall
  /\ UNCHANGED <<configFile, envVariables, routerConfig, activeRequests, circuitBreakers,
                 crmVars, parseVars, healthVars, svcVars>>

\* reloadEndpoints: initializeEndpoints, then buildRoutingTable.  `loads`
\* tells whether configManager hands out the configuration or throws; the
\* catch of initializeEndpoints empties endpointsConfig and environmentsConfig
ReloadEndpoints(loads) ==
  /\ configChanges < MaxConfigChanges
  /\ endpointsConfig' = IF loads THEN GetAllEndpoints(configFile, envVariables) ELSE <<>>
  /\ environmentsConfig' = IF loads THEN RawOverrides(configFile) ELSE EmptyObject
  /\ Rebuild

SetEndpointConfig(commandType, config) ==
  /\ configChanges < MaxConfigChanges
  \* a command that is new comes with a complete configuration
  /\ commandType \in Keys(endpointsConfig) \/ DOMAIN SchemaDefaults \subseteq DOMAIN config
  /\ endpointsConfig' =
       IF commandType \in Keys(endpointsConfig)
       THEN [i \in 1..Len(endpointsConfig) |->
               IF endpointsConfig[i].key = commandType
               THEN [key |-> commandType, config |-> Spread(endpointsConfig[i].config, config)]
               ELSE endpointsConfig[i]]
       ELSE Append(endpointsConfig, [key |-> commandType, config |-> config])
  /\ UNCHANGED environmentsConfig
  /\ Rebuild

RemoveEndpointConfig(commandType) ==
  /\ configChanges < MaxConfigChanges
  /\ commandType \in Keys(endpointsConfig)
  /\ endpointsConfig' = SelectSeq(endpointsConfig, LAMBDA e : e.key # commandType)
  /\ UNCHANGED environmentsConfig
  /\ Rebuild

\* the configuration services of a specification that does not exercise them
EndpointsUnused ==
  /\ configFile = [endpoints |-> FileEndpoints, overrides |-> EmptyObject, rawReadable |-> TRUE]
  /\ envVariables = [endpointUrls |-> EmptyObject, endpointTimeouts |-> EmptyObject]
  /\ endpointsConfig = GetAllEndpoints(configFile, envVariables)
  /\ environmentsConfig = EmptyObject
  /\ registered = <<>>
  /\ configChanges = 0

(***************************************************************************)
(* ResponseNormalizers.  A JavaScript value is a record: a primitive is    *)
(* [t, v] (its type and its text), an object is the function from its      *)
(* field names to values.  A string body is its text, and JSON.parse is    *)
(* the inverse of Stringify on the objects of the model.                   *)
(***************************************************************************)
JsString(text) == [t |-> "string", v |-> text]
JsNumber(text) == [t |-> "number", v |-> text]
JsNull == [t |-> "null", v |-> ""]
JsEmptyArray == [t |-> "array", v |-> ""]
SyntaxError == [t |-> "SyntaxError", v |-> ""]
NotParsed == [t |-> "notParsed", v |-> ""]
\* new Date().toISOString()
Now == JsString("now")

IsPrimitive(x) == DOMAIN x = {"t", "v"}
IsObject(x) == ~IsPrimitive(x)

\* JavaScript truthiness: "", 0 and null are falsy, every object is truthy
Truthy(x) ==
  IsObject(x) \/ (x.t = "string" /\ x.v # "") \/ (x.t = "number" /\ x.v # "0") \/ x.t = "array"

\* data.f1 || data.f2 || ... || last
RECURSIVE FirstTruthy(_, _, _)
FirstTruthy(data, fields, last) ==
  IF fields = <<>> THEN last
  ELSE IF Head(fields) \in DOMAIN data /\ Truthy(data[Head(fields)])
       THEN data[Head(fields)]
       ELSE FirstTruthy(data, Tail(fields), last)

\* ...data.f, where data.f may be undefined
SpreadField(data, f) ==
  IF f \in DOMAIN data /\ IsObject(data[f]) THEN data[f] ELSE EmptyObject

normalizeScrapeResponse(data) ==
  Spread(data,
    [content |-> FirstTruthy(data, <<"content", "text", "html">>, JsNull),
     metadata |-> Spread([url |-> FirstTruthy(data, <<"url", "source_url">>, JsNull),
                          title |-> FirstTruthy(data, <<"title">>, JsNull),
                          description |->
                            FirstTruthy(data, <<"description", "summary">>, JsNull)],
                         SpreadField(data, "metadata")),
     stats |-> Spread([processingTime |->
                         FirstTruthy(data, <<"processing_time", "duration">>, JsNull),
                       size |-> FirstTruthy(data, <<"content_size", "size">>, JsNull)],
                      SpreadField(data, "stats"))])

normalizeProcessResponse(data) ==
  Spread(data,
    [result |-> FirstTruthy(data, <<"result", "output", "response">>, JsNull),
     status |-> FirstTruthy(data, <<"status">>, JsString("completed")),
     processingInfo |->
       Spread([steps |-> FirstTruthy(data, <<"steps", "stages">>, JsEmptyArray),
               duration |-> FirstTruthy(data, <<"duration", "processing_time">>, JsNull)],
              SpreadField(data, "processing_info"))])

\* normalizeResponseObject for an object (the `id` assignment changes nothing)
normalizeResponseObject(data, commandType) ==
  LET normalized ==
        IF FirstTruthy(data, <<"timestamp", "createdAt">>, JsNull) = JsNull
        THEN Spread(data, [timestamp |-> Now])
        ELSE data
  IN CASE commandType = "scrape" -> normalizeScrapeResponse(normalized)
       [] commandType = "process" -> normalizeProcessResponse(normalized)
       [] OTHER -> normalized

\* the JSON objects of the model: each field absent or holding one of its values
FieldValues ==
  [content |-> {JsString(""), JsString("x")},
   text |-> {JsString("t")},
   timestamp |-> {JsString("2024")},
   status |-> {JsString("ok")},
   metadata |-> {[title |-> JsString("M")]}]
FieldOrder == <<"content", "text", "timestamp", "status", "metadata">>
JsonObjects ==
  UNION {{o \in [fields -> UNION {FieldValues[f] : f \in fields}] :
            \A f \in fields : o[f] \in FieldValues[f]} : fields \in SUBSET DOMAIN FieldValues}

\* JSON.stringify
RECURSIVE Stringify(_)
RECURSIVE StringifyFields(_, _, _)
StringifyFields(o, fields, sep) ==
  IF fields = <<>> THEN ""
  ELSE IF Head(fields) \in DOMAIN o
       THEN sep \o "\"" \o Head(fields) \o "\":" \o Stringify(o[Head(fields)])
                \o StringifyFields(o, Tail(fields), ",")
       ELSE StringifyFields(o, Tail(fields), sep)
Stringify(x) ==
  IF IsObject(x) THEN "{" \o StringifyFields(x, <<"title">> \o FieldOrder, "") \o "}"
  ELSE IF x.t = "string" THEN "\"" \o x.v \o "\""
  ELSE IF x.t = "null" THEN "null"
  ELSE x.v

\* JSON.parse: the value whose JSON text this is, or a SyntaxError
JsonValues == JsonObjects \cup {JsNull, JsNumber("5")}
JSONParse(text) ==
  IF \E x \in JsonValues : Stringify(x) = text
  THEN CHOOSE x \in JsonValues : Stringify(x) = text
  ELSE SyntaxError

\* the bodies a response arrives with: objects (axios parsed them), JSON
\* texts, texts that are not JSON, and no body at all
Bodies ==
  JsonObjects \cup {JsString(Stringify(x)) : x \in JsonValues}
              \cup {JsString(""), JsString("plain text"), JsString("{oops"), JsNull}

parseResponseData(data, commandType) ==
  IF ~Truthy(data) THEN JsNull
  ELSE IF IsObject(data) THEN normalizeResponseObject(data, commandType)
  ELSE IF data.t = "string"
  THEN LET parsedJson == JSONParse(data.v)
       IN \* a SyntaxError of JSON.parse and the TypeError of
          \* normalizeResponseObject(null) both end in the catch
          IF parsedJson \in {SyntaxError, JsNull}
          THEN [content |-> data, type |-> JsString("text")]
          ELSE IF IsObject(parsedJson) THEN normalizeResponseObject(parsedJson, commandType)
          \* { ...5 } is {}
          ELSE normalizeResponseObject(EmptyObject, commandType)
  ELSE [content |-> data, type |-> JsString(data.t)]

\* a successful response reaches transformSuccessResponse
ResponseInit ==
  /\ response \in [data : Bodies, commandType : {"scrape", "process", "analyze"}]
  /\ parsed = NotParsed

\* transformSuccessResponse: data = parseResponseData(response.data, commandType)
ParseResponseData ==
  /\ parsed = NotParsed
  /\ parsed' = parseResponseData(response.data, response.commandType)
  /\ UNCHANGED <<response, crmVars, routerVars, cfgVars, healthVars, svcVars>>

ParseUnused == response = [data |-> JsNull, commandType |-> "scrape"] /\ parsed = NotParsed

(***************************************************************************)
(* ResponseTransformer.transformResponse on a response object              *)
(* [status, statusText, data], whose values are JavaScript values as above *)
(***************************************************************************)
NoError == [code |-> 0, message |-> JsNull, type |-> "none"]
NotTransformed == [success |-> FALSE, status |-> 0, data |-> NotParsed, error |-> NoError]

\* ResponseValidators.extractErrorMessage: response.data.error before
\* response.data.message
extractErrorMessageMutC36(resp) ==
  LET fallback == IF Truthy(resp.statusText) THEN resp.statusText
                  ELSE JsString("HTTP " \o ToString(resp.status) \o " Error")
  IN IF ~Truthy(resp.data) THEN fallback
     ELSE IF IsPrimitive(resp.data)
          THEN IF resp.data.t = "string" THEN resp.data ELSE fallback
          ELSE FirstTruthy(resp.data, <<"error", "message">>, fallback)

\* ResponseValidators.extractErrorMessage
extractErrorMessage(resp) ==
  LET fallback == IF Truthy(resp.statusText) THEN resp.statusText
                  ELSE JsString("HTTP " \o ToString(resp.status) \o " Error")
  IN IF ~Truthy(resp.data) THEN fallback
     ELSE IF IsPrimitive(resp.data)
          \* a number or an array has no message and no error property
          THEN IF resp.data.t = "string" THEN resp.data ELSE fallback
          ELSE FirstTruthy(resp.data, <<"message", "error">>, fallback)

\* ResponseTransformer.transformErrorResponse
transformErrorResponse(resp) ==
  [success |-> FALSE, status |-> resp.status, data |-> JsNull,
   error |-> [code |-> resp.status, message |-> extractErrorMessage(resp),
              type |-> categorizeError(resp.status)]]

\* ResponseTransformer.transformSuccessResponse (data only)
transformSuccessResponse(resp, commandType) ==
  [success |-> TRUE, status |-> resp.status,
   data |-> parseResponseData(resp.data, commandType), error |-> NoError]

\* the responses transformResponse is applied to
ResponseStatuses == {200, 204, 400, 404, 499, 500, 503}
StatusTexts == {JsString(""), JsString("Status Text")}
ErrorBodies ==
  {JsNull, JsString(""), JsString("plain text"), JsNumber("0"), JsNumber("5"), EmptyObject}
    \cup {[message |-> m] : m \in {JsString(""), JsString("the message")}}
    \cup {[error |-> e] : e \in {JsString(""), JsString("the error")}}
    \cup [message : {JsString(""), JsString("the message")},
          error : {JsString(""), JsString("the error")}]

TransformInit ==
  /\ httpResponse \in [status : ResponseStatuses, statusText : StatusTexts,
                        data : ErrorBodies]
  /\ transformed = NotTransformed

\* ResponseTransformer.transformResponse(response, 'analyze')
TransformResponse ==
  /\ transformed = NotTransformed
  /\ transformed' = IF httpResponse.status >= 400
                    THEN transformErrorResponse(httpResponse)
                    ELSE transformSuccessResponse(httpResponse, "analyze")
  /\ UNCHANGED <<httpResponse, routerShutdown, monitorVars, managerVars, crmVars, routerVars,
                 cfgVars, parseVars, healthVars>>

TransformUnused ==
  /\ httpResponse = [status |-> 200, statusText |-> JsString(""), data |-> JsNull]
  /\ transformed = NotTransformed

(***************************************************************************)
(* N8NRouter.healthCheck and RequestHandler.healthCheck: the probe is      *)
(* this.httpClient.get(url, {timeout: 5000}) on the client axios-retry was *)
(* attached to.  One health check is followed at a time.                   *)
(***************************************************************************)
IdleProbe == [endpoint |-> "none", http |-> "none", attempts |-> 0]
NoResult == [healthy |-> FALSE, error |-> "none", endpoint |-> "none", attempts |-> 0]

\* N8NRouter.healthCheck up to `await this.requestHandler.healthCheck(healthUrl)`
HealthCheck(endpointKey) ==
  /\ NoMicrotaskPending
  /\ probe = IdleProbe
  /\ IF EndpointRouteCommand(routingTable, endpointKey) = Null
     THEN /\ probeResult' = [healthy |-> FALSE, error |-> "Endpoint not configured",
                             endpoint |-> endpointKey, attempts |-> 0]
          /\ UNCHANGED probe
     ELSE /\ probe' = [endpoint |-> endpointKey, http |-> "inflight", attempts |-> 1]
          /\ probeResult' = NoResult
  /\ settled' = IdleCall
  /\ UNCHANGED <<routerConfig, routingTable, activeRequests, circuitBreakers,
                 crmVars, cfgVars, parseVars, svcVars>>

\* the downstream answers the GET in flight: axios-retry decides on a retry;
\* otherwise RequestHandler.healthCheck returns healthy for a 2xx answer and
\* unhealthy from its catch, and N8NRouter.healthCheck adds the endpoint
ProbeRespond(status) ==
  /\ NoMicrotaskPending
  /\ probe.http = "inflight"
  /\ IF ShouldRetry(status, probe.attempts - 1, routerConfig.retryAttempts)
     THEN /\ probe' = [probe EXCEPT !.http = "backoff"]
          /\ UNCHANGED probeResult
     ELSE /\ probe' = IdleProbe
          /\ probeResult' = [healthy |-> status = "2xx",
                             error |-> IF status = "2xx" THEN "none" ELSE "error_http",
                             endpoint |-> probe.endpoint, attempts |-> probe.attempts]
  /\ settled' = IdleCall
  /\ UNCHANGED <<routerConfig, routingTable, activeRequests, circuitBreakers,
                 crmVars, cfgVars, parseVars, svcVars>>

\* axios-retry's backoff delay is over: the GET is sent again
ProbeRetry ==
  /\ NoMicrotaskPending
  /\ probe.http = "backoff"
  /\ probe' = [probe EXCEPT !.http = "inflight", !.attempts = @ + 1]
  /\ settled' = IdleCall
  /\ UNCHANGED <<probeResult, routerConfig, routingTable, activeRequests, circuitBreakers,
                 crmVars, cfgVars, parseVars, svcVars>>

HealthUnused == probe = IdleProbe /\ probeResult = NoResult

(***************************************************************************)
(* N8NRouter.shutdown().  The wait loop polls activeRequests every 100 ms  *)
(* until 30 s have passed: ShutdownTimeoutPolls polls in the model.        *)
(***************************************************************************)
NotShutDown == [pc |-> "idle", polls |-> 0, remainingRequests |-> 0]

\* while (this.activeRequests.size > 0 && (Date.now() - startTime) < shutdownTimeout)
KeepWaitingMutC33(active, polls) == ActiveSize(active) > 0
KeepWaiting(active, polls) == ActiveSize(active) > 0 /\ polls < ShutdownTimeoutPolls

\* the end of shutdown(): CircuitBreakerManager.shutdown() clears the map of
\* breakers, then service:shutdown:complete reports activeRequests.size
ShutdownComplete(polls) ==
  /\ circuitBreakers' = [k \in {} |-> NewBreaker]
  /\ routerShutdown' = [pc |-> "complete", polls |-> polls,
                        remainingRequests |-> ActiveSize(activeRequests)]

\* shutdown() from its entry to its first `await` (or to its end when the
\* loop is not entered)
RouterShutdown ==
  /\ NoMicrotaskPending
  /\ routerShutdown.pc = "idle"
  /\ IF KeepWaiting(activeRequests, 0)
     THEN /\ routerShutdown' = [routerShutdown EXCEPT !.pc = "waiting"]
          /\ UNCHANGED circuitBreakers
     ELSE ShutdownComplete(0)
  /\ settled' = IdleCall
  /\ UNCHANGED <<routerConfig, routingTable, activeRequests, crmVars, cfgVars, parseVars,
                 healthVars, transformVars, monitorVars, managerVars>>

\* the 100 ms timer of the wait loop fires and the loop condition is
\* evaluated again
ShutdownPoll ==
  /\ NoMicrotaskPending
  /\ routerShutdown.pc = "waiting"
  /\ IF KeepWaiting(activeRequests, routerShutdown.polls + 1)
     THEN /\ routerShutdown' = [routerShutdown EXCEPT !.polls = @ + 1]
          /\ UNCHANGED circuitBreakers
     ELSE ShutdownComplete(routerShutdown.polls + 1)
  /\ settled' = IdleCall
  /\ UNCHANGED <<routerConfig, routingTable, activeRequests, crmVars, cfgVars, parseVars,
                 healthVars, transformVars, monitorVars, managerVars>>

\* CircuitBreakerManager.removeCircuitBreaker(endpointKey)
RemoveCircuitBreaker(key) ==
  /\ NoMicrotaskPending
  /\ key \in DOMAIN circuitBreakers
  /\ circuitBreakers' = [k \in DOMAIN circuitBreakers \ {key} |-> circuitBreakers[k]]
  /\ settled' = IdleCall
  /\ UNCHANGED <<routerConfig, routingTable, activeRequests, crmVars, auxVars>>

(***************************************************************************)
(* HealthMonitor.  One listener is registered on the monitor; it calls     *)
(* startMonitoring or stopMonitoring from inside emit().  A call of        *)
(* performHealthCheck runs to its first `await`: with none of the three    *)
(* services in this.services there is no await and the whole check,        *)
(* its emits included, runs inside the caller.                              *)
(***************************************************************************)
MonitorServices == {"n8nRouter", "requestHandler", "circuitBreakerManager"}

\* the methods of class CircuitBreakerManager
CircuitBreakerManagerMethods ==
  {"createCircuitBreaker", "getCircuitBreaker", "removeCircuitBreaker", "getAllStates",
   "resetAll", "getStats", "shutdown"}

NoResults ==
  [overall |-> [healthy |-> TRUE, status |-> "none"],
   services |-> [n \in {} |-> [healthy |-> TRUE, status |-> "none"]]]

NewMonitor ==
  [isMonitoring |-> FALSE, monitoringInterval |-> 0, scheduled |-> {}, timers |-> 0,
   services |-> {}, pending |-> 0, results |-> NoResults]

NoListener == [event |-> "none", call |-> "none"]

\* a listener of monitoring:stopped that calls stopMonitoring never returns
Listeners ==
  {NoListener} \cup
  ([event : {"health:check", "health:unhealthy", "monitoring:started", "monitoring:stopped"},
    call : {"startMonitoring", "stopMonitoring"}]
     \ {[event |-> "monitoring:stopped", call |-> "stopMonitoring"]})

\* checkN8NRouterHealth: router.getStats() returns
checkN8NRouterHealth == [healthy |-> TRUE, status |-> "operational"]

\* checkRequestHandlerHealth: handler.getStats() returns
checkRequestHandlerHealth == [healthy |-> TRUE, status |-> "operational"]

\* checkCircuitBreakerHealth: a call of a method the manager does not have
\* throws a TypeError inside the try, and the catch answers
checkCircuitBreakerHealth(breakers) ==
  IF {"getStats", "hasOpenCircuits", "getCircuitBreakersByState"}
       \subseteq CircuitBreakerManagerMethods
  THEN LET hasOpenCircuits == \E k \in DOMAIN breakers : breakers[k].state = "open"
       IN  [healthy |-> ~hasOpenCircuits,
            status |-> IF hasOpenCircuits THEN "degraded" ELSE "operational"]
  ELSE [healthy |-> FALSE, status |-> "error"]

\* the key of results.services a monitored service is reported under
ResultKey(service) ==
  IF service = "circuitBreakerManager" THEN "circuitBreaker" ELSE service

\* the results object performHealthCheck builds
HealthResults(services, breakers) ==
  LET checked == services \cap MonitorServices
      healths ==
        [n \in {ResultKey(s) : s \in checked} |->
           CASE n = "n8nRouter" -> checkN8NRouterHealth
             [] n = "requestHandler" -> checkRequestHandlerHealth
             [] OTHER -> checkCircuitBreakerHealth(breakers)]
      healthy == \A n \in DOMAIN healths : healths[n].healthy
  IN  [overall |-> [healthy |-> healthy,
                    status |-> IF healthy THEN "healthy" ELSE "unhealthy"],
       services |-> healths]

RECURSIVE emit(_, _), startMonitoring(_, _), stopMonitoring(_), performHealthCheck(_),
          finishHealthCheck(_)

\* EventEmitter.emit: the listener runs inside the call
emit(m, event) ==
  IF listener.event # event THEN m
  ELSE IF listener.call = "startMonitoring" THEN startMonitoring(m, monitored)
       ELSE stopMonitoring(m)

\* performHealthCheck from "Determine overall health" to its end
finishHealthCheck(m) ==
  LET results == HealthResults(m.services, circuitBreakers)
      checked == emit([m EXCEPT !.results = results], "health:check")
  IN  IF results.overall.healthy THEN checked ELSE emit(checked, "health:unhealthy")

\* performHealthCheck up to its first await
performHealthCheck(m) ==
  IF m.services \cap MonitorServices = {}
  THEN finishHealthCheck(m)
  ELSE [m EXCEPT !.pending = @ + 1]

startMonitoring(m, services) ==
  IF m.isMonitoring THEN m
  ELSE LET checking ==
             performHealthCheck([m EXCEPT !.services = services, !.isMonitoring = TRUE])
           timer == checking.timers + 1
       IN  emit([checking EXCEPT !.timers = timer, !.monitoringInterval = timer,
                                 !.scheduled = @ \cup {timer}],
                "monitoring:started")

stopMonitoring(m) ==
  LET cleared == IF m.monitoringInterval # 0
                 THEN [m EXCEPT !.scheduled = @ \ {m.monitoringInterval},
                                !.monitoringInterval = 0]
                 ELSE m
  IN  emit([cleared EXCEPT !.isMonitoring = FALSE], "monitoring:stopped")

MonitorInit ==
  /\ monitor = NewMonitor
  /\ listener \in Listeners
  /\ monitored \in SUBSET MonitorServices

\* the monitor is followed until MaxMonitorTimers interval timers were created
MonitorIdle ==
  /\ NoMicrotaskPending
  /\ monitor.pending = 0
  /\ monitor.timers < MaxMonitorTimers

\* a call of healthMonitor.startMonitoring(services)
MonitorStart ==
  /\ MonitorIdle
  /\ monitor' = startMonitoring(monitor, monitored)
  /\ UNCHANGED <<listener, monitored, routerShutdown, transformVars, managerVars, crmVars,
                 routerVars, cfgVars, parseVars, healthVars>>

\* a call of healthMonitor.stopMonitoring()
MonitorStop ==
  /\ MonitorIdle
  /\ monitor' = stopMonitoring(monitor)
  /\ UNCHANGED <<listener, monitored, routerShutdown, transformVars, managerVars, crmVars,
                 routerVars, cfgVars, parseVars, healthVars>>

\* an interval timer fires: setInterval(() => this.performHealthCheck(), ...)
MonitorTick(timer) ==
  /\ MonitorIdle
  /\ timer \in monitor.scheduled
  /\ monitor' = performHealthCheck(monitor)
  /\ UNCHANGED <<listener, monitored, routerShutdown, transformVars, managerVars, crmVars,
                 routerVars, cfgVars, parseVars, healthVars>>

\* a suspended performHealthCheck runs on from its awaits to its end
HealthCheckContinue ==
  /\ monitor.pending > 0
  /\ monitor' = finishHealthCheck([monitor EXCEPT !.pending = @ - 1])
  /\ UNCHANGED <<listener, monitored, routerShutdown, transformVars, managerVars, crmVars,
                 routerVars, cfgVars, parseVars, healthVars>>

MonitorUnused ==
  /\ monitor = NewMonitor
  /\ listener = NoListener
  /\ monitored = {}

(***************************************************************************)
(* ServiceManager.  Every initialize() creates new instances of the        *)
(* router, the health monitor and the limiter; the variables of the model  *)
(* follow the instances created last.  A shutdown() call that is still     *)
(* waiting in the shutdown() of a router of an earlier initialize() ends   *)
(* at one of the polls of that router's wait loop.                          *)
(***************************************************************************)
ServiceNames == {"n8nRouter", "healthMonitor", "concurrentRequestManager"}

NoServices == [n \in {} |-> 0]

NewManager ==
  [initialized |-> FALSE, services |-> NoServices, healthMonitor |-> 0,
   concurrentRequestManager |-> 0, created |-> 0, shutdowns |-> <<>>]

NothingReturned == [op |-> "none", outcome |-> "none", service |-> 0]

\* shutdown() after `await n8nRouter.shutdown()`
shutdownEndMutC39(m) ==
  [m EXCEPT !.services = NoServices, !.healthMonitor = 0, !.concurrentRequestManager = 0]
shutdownEnd(m) ==
  [m EXCEPT !.services = NoServices, !.healthMonitor = 0, !.concurrentRequestManager = 0,
            !.initialized = FALSE]

\* the sequence `calls` without its i-th element
Without(calls, i) == SubSeq(calls, 1, i - 1) \o SubSeq(calls, i + 1, Len(calls))

\* a call of the ServiceManager is made from a task of the event loop
ManagerIdle == NoMicrotaskPending /\ monitor.pending = 0

\* serviceManager.initialize(config)
ManagerInitialize ==
  /\ ManagerIdle
  /\ IF manager.initialized
     THEN /\ returned' = [op |-> "initialize", outcome |-> "Services already initialized",
                          service |-> 0]
          /\ UNCHANGED <<manager, monitor, routerShutdown, crmVars, routerVars>>
     ELSE /\ manager.created < MaxInitializations
          /\ LET instance == manager.created + 1
             IN  /\ manager' = [manager EXCEPT
                                  !.services = [n \in ServiceNames |-> instance],
                                  !.healthMonitor = instance,
                                  !.concurrentRequestManager = instance,
                                  !.initialized = TRUE,
                                  !.created = instance]
                 /\ returned' = [op |-> "initialize", outcome |-> "initialized",
                                 service |-> instance]
          \* new N8NRouter(...)
          /\ activeRequests' = EmptyBag
          /\ circuitBreakers' =
               [k \in {BreakerKey(ct) : ct \in DOMAIN routingTable} |-> NewBreaker]
          /\ settled' = IdleCall
          /\ routerShutdown' = NotShutDown
          /\ UNCHANGED <<routerConfig, routingTable>>
          \* new ConcurrentRequestManager(...)
          /\ crmActiveRequests' = {}
          /\ requestQueue' = <<>>
          /\ crmStats' = [activeCount |-> 0, queuedCount |-> 0,
                          rejected |-> FALSE, timedOut |-> FALSE]
          /\ reqStatus' = [i \in CrmIds |-> "idle"]
          /\ crmEvents' = <<>>
          /\ queueTimers' = {}
          /\ UNCHANGED crmConfig
          \* new HealthMonitor(...), then startHealthMonitoring()
          /\ monitor' = startMonitoring(NewMonitor, MonitorServices)
  /\ UNCHANGED <<listener, monitored, transformVars, cfgVars, parseVars, healthVars>>

\* serviceManager.getService(serviceName)
GetService(serviceName) ==
  /\ ManagerIdle
  /\ returned' =
       IF ~manager.initialized
       THEN [op |-> "getService", service |-> 0,
             outcome |-> "Services not initialized. Call initialize() first."]
       ELSE IF serviceName \notin DOMAIN manager.services
            THEN [op |-> "getService", service |-> 0, outcome |-> "Service not found"]
            ELSE [op |-> "getService", service |-> manager.services[serviceName],
                  outcome |-> "service"]
  /\ UNCHANGED <<manager, monitorVars, routerShutdown, transformVars, crmVars, routerVars,
                 cfgVars, parseVars, healthVars>>

\* serviceManager.shutdown() up to `await n8nRouter.shutdown()`, and to its
\* end when the router has nothing to wait for
ManagerShutdown ==
  /\ ManagerIdle
  /\ IF ~manager.initialized
     THEN /\ returned' = [op |-> "shutdown", outcome |-> "not initialized", service |-> 0]
          /\ UNCHANGED <<manager, monitor, routerShutdown, crmVars, routerVars>>
     ELSE /\ Len(manager.shutdowns) < 2
          /\ monitor' = IF manager.healthMonitor # 0 THEN stopMonitoring(monitor) ELSE monitor
          /\ IF manager.concurrentRequestManager # 0 THEN CrmShutdownBody ELSE UNCHANGED crmVars
          /\ IF KeepWaiting(activeRequests, 0)
             THEN /\ manager' = [manager EXCEPT !.shutdowns =
                                   Append(@, [router |-> manager.services["n8nRouter"],
                                              polls |-> 0])]
                  /\ returned' = [op |-> "shutdown", outcome |-> "waiting", service |-> 0]
                  /\ routerShutdown' = [routerShutdown EXCEPT !.pc = "waiting"]
                  /\ UNCHANGED circuitBreakers
             ELSE /\ ShutdownComplete(0)
                  /\ manager' = shutdownEnd(manager)
                  /\ returned' = [op |-> "shutdown", outcome |-> "complete", service |-> 0]
          /\ settled' = IdleCall
          /\ UNCHANGED <<routerConfig, routingTable, activeRequests>>
  /\ UNCHANGED <<listener, monitored, transformVars, cfgVars, parseVars, healthVars>>

\* the 100 ms timer of the wait loop the i-th waiting shutdown() is in fires;
\* `ends` is whether the loop of a router of an earlier initialize() ends here
ManagerShutdownPoll(i, ends) ==
  /\ ManagerIdle
  /\ i \in DOMAIN manager.shutdowns
  /\ LET call == manager.shutdowns[i]
         current == call.router = manager.created
         waiting == IF current THEN KeepWaiting(activeRequests, call.polls + 1)
                    ELSE ~ends /\ call.polls + 1 < ShutdownTimeoutPolls
     IN  /\ IF waiting
            THEN /\ manager' = [manager EXCEPT !.shutdowns[i].polls = @ + 1]
                 /\ UNCHANGED returned
            ELSE /\ manager' = shutdownEnd([manager EXCEPT !.shutdowns = Without(@, i)])
                 /\ returned' = [op |-> "shutdown", outcome |-> "complete", service |-> 0]
         /\ IF current /\ ~waiting
            THEN ShutdownComplete(call.polls + 1)
            ELSE UNCHANGED <<circuitBreakers, routerShutdown>>
  /\ settled' = IdleCall
  /\ UNCHANGED <<routerConfig, routingTable, activeRequests, monitorVars, transformVars,
                 crmVars, cfgVars, parseVars, healthVars>>

ManagerUnused == manager = NewManager /\ returned = NothingReturned

\* the lifecycle services of a specification that does not exercise them
ServicesUnused ==
  routerShutdown = NotShutDown /\ TransformUnused /\ MonitorUnused /\ ManagerUnused

(***************************************************************************)
(* Specifications                                                           *)
(***************************************************************************)
vars == <<crmVars, routerVars, auxVars>>

\* the services a specification does not exercise
AuxUnused == EndpointsUnused /\ ParseUnused /\ HealthUnused /\ ServicesUnused

\* the limiter alone, next to a router that serves no call
InitLimiter ==
  /\ CrmInit
  /\ RouterInit(RouterMaxConcurrent, RetryAttempts, {"scrape"})
  /\ AuxUnused

NextLimiter ==
  \/ \E id \in CrmIds : CrmExecuteImmediately(id)
  \/ \E id \in CrmIds : CrmQueueRequest(id)
  \/ \E id \in CrmIds : CrmReject(id)
  \/ \E id \in CrmIds, ok \in BOOLEAN : CrmComplete(id, ok)
  \/ \E id \in CrmIds : CrmQueueTimeout(id)

SpecLimiter == InitLimiter /\ [][NextLimiter]_vars

\* the limiter with queuing and queue timeouts enabled (the smallest and the
\* largest queue), and shutdown() called at any moment, any number of times
InitShutdown ==
  /\ CrmInit
  /\ crmConfig.maxConcurrentRequests = CrmMaxConcurrent
  /\ crmConfig.queueSize \in {1, CrmQueueSize}
  /\ crmConfig.queueTimeout = 30000
  /\ crmConfig.enableQueuing
  /\ RouterInit(RouterMaxConcurrent, RetryAttempts, {"scrape"})
  /\ AuxUnused

NextShutdown ==
  \/ \E id \in CrmIds : CrmExecuteImmediately(id)
  \/ \E id \in CrmIds : CrmQueueRequest(id)
  \/ \E id \in CrmIds : CrmReject(id)
  \/ \E id \in CrmIds, ok \in BOOLEAN : CrmComplete(id, ok)
  \/ \E id \in CrmIds : CrmQueueTimeout(id)
  \/ CrmShutdown

SpecShutdown == InitShutdown /\ [][NextShutdown]_vars

\* the limiter with the largest configuration, whose slots and queue hold
\* every request of the model (CrmMaxConcurrent + CrmQueueSize >= NumRequests:
\* executeRequest never takes its rejecting branch), and every started
\* request function settling eventually
InitShutdownFair ==
  /\ CrmInit
  /\ crmConfig = [maxConcurrentRequests |-> CrmMaxConcurrent, queueSize |-> CrmQueueSize,
                  queueTimeout |-> 30000, enableQueuing |-> TRUE]
  /\ RouterInit(RouterMaxConcurrent, RetryAttempts, {"scrape"})
  /\ AuxUnused

NextShutdownFair ==
  \/ \E id \in CrmIds : CrmExecuteImmediately(id)
  \/ \E id \in CrmIds : CrmQueueRequest(id)
  \/ \E id \in CrmIds, ok \in BOOLEAN : CrmComplete(id, ok)
  \/ \E id \in CrmIds : CrmQueueTimeout(id)
  \/ CrmShutdown

SpecShutdownFair ==
  /\ InitShutdownFair
  /\ [][NextShutdownFair]_vars
  /\ \A id \in CrmIds : WF_vars(\E ok \in BOOLEAN : CrmComplete(id, ok))

\* the limiter that serves no request
CrmUnused ==
  /\ CrmInit
  /\ crmConfig = [maxConcurrentRequests |-> CrmMaxConcurrent, queueSize |-> CrmQueueSize,
                  queueTimeout |-> 30000, enableQueuing |-> TRUE]

\* the router with one enabled endpoint (scrape), two disabled ones,
\* concurrent calls and a retrying HTTP client
InitRouter ==
  /\ RouterInit(RouterMaxConcurrent, RetryAttempts, {"scrape"})
  /\ CrmUnused
  /\ AuxUnused

NextRouter ==
  \/ \E ct \in Commands : RouteCommand(ct)
  \/ \E cl \in InFlight : RejectContinue(cl)
  \/ \E cl \in InFlight, status \in HttpStatuses : HttpRespond(cl, status)
  \/ \E cl \in InFlight : RetryAttempt(cl)
  \/ \E cl \in InFlight : BreakerTimeout(cl)
  \/ \E key \in Commands : HalfOpenTimer(key)
  \/ RotateWindow

SpecRouter == InitRouter /\ [][NextRouter]_vars

\* the router with two enabled endpoints (scrape, analyze), configured with
\* maxConcurrentRequests: 1 and retryAttempts: 0
InitTwoEndpoints ==
  /\ RouterInit(1, 0, {"scrape", "analyze"})
  /\ CrmUnused
  /\ AuxUnused

\* with retryAttempts: 0 the client never schedules a retry
NextTwoEndpoints ==
  \/ \E ct \in Commands : RouteCommand(ct)
  \/ \E cl \in InFlight : RejectContinue(cl)
  \/ \E cl \in InFlight, status \in HttpStatuses : HttpRespond(cl, status)
  \/ \E cl \in InFlight : BreakerTimeout(cl)
  \/ \E key \in Commands : HalfOpenTimer(key)
  \/ RotateWindow

SpecTwoEndpoints == InitTwoEndpoints /\ [][NextTwoEndpoints]_vars

\* the endpoint configuration under setEndpointConfig, removeEndpointConfig
\* and reloadEndpoints, for every deployment of the override block and the
\* environment variables; the router serves no call
InitEndpoints ==
  /\ EndpointsInit
  /\ routerConfig = [maxConcurrentRequests |-> RouterMaxConcurrent,
                     circuitBreakerThreshold |-> VolumeThreshold,
                     retryAttempts |-> RetryAttempts]
  /\ activeRequests = EmptyBag
  /\ circuitBreakers = [k \in {BreakerKey(ct) : ct \in DOMAIN routingTable} |-> NewBreaker]
  /\ settled = IdleCall
  /\ CrmUnused
  /\ ParseUnused
  /\ HealthUnused
  /\ ServicesUnused

NextEndpoints ==
  \/ \E loads \in BOOLEAN : ReloadEndpoints(loads)
  \/ \E ct \in Commands, config \in SetInputs : SetEndpointConfig(ct, config)
  \/ \E ct \in Commands : RemoveEndpointConfig(ct)

SpecEndpoints == InitEndpoints /\ [][NextEndpoints]_vars

\* parseResponseData applied to every body and command type of the model
InitParse ==
  /\ ResponseInit
  /\ RouterInit(RouterMaxConcurrent, RetryAttempts, {"scrape"})
  /\ CrmUnused
  /\ EndpointsUnused
  /\ HealthUnused
  /\ ServicesUnused

NextParse == ParseResponseData

SpecParse == InitParse /\ [][NextParse]_vars

\* health checks next to the traffic of a router with one enabled endpoint
\* and maxConcurrentRequests: 1
InitHealth ==
  /\ RouterInit(1, RetryAttempts, {"scrape"})
  /\ CrmUnused
  /\ EndpointsUnused
  /\ ParseUnused
  /\ HealthUnused
  /\ ServicesUnused

NextHealth ==
  \/ \E ct \in Commands : RouteCommand(ct)
  \/ \E cl \in InFlight : RejectContinue(cl)
  \/ \E cl \in InFlight, status \in HttpStatuses : HttpRespond(cl, status)
  \/ \E cl \in InFlight : RetryAttempt(cl)
  \/ \E cl \in InFlight : BreakerTimeout(cl)
  \/ \E key \in Commands : HalfOpenTimer(key)
  \/ RotateWindow
  \/ \E ct \in Commands : HealthCheck(ct)
  \/ \E status \in HttpStatuses : ProbeRespond(status)
  \/ ProbeRetry

SpecHealth == InitHealth /\ [][NextHealth]_vars

\* the router serving scrape calls one at a time through a client that
\* retries once (circuitBreakerThreshold: 1), with one configuration
\* operation on the scrape endpoint (a change, a removal or a reload) at any
\* moment of the traffic
InitReconfigure ==
  /\ EndpointsInit
  /\ configFile = [endpoints |-> FileEndpoints, overrides |-> EmptyObject,
                   rawReadable |-> TRUE]
  /\ envVariables = [endpointUrls |-> EmptyObject, endpointTimeouts |-> EmptyObject]
  /\ routerConfig = [maxConcurrentRequests |-> 1,
                     circuitBreakerThreshold |-> 1,
                     retryAttempts |-> 1]
  /\ activeRequests = EmptyBag
  /\ circuitBreakers = [k \in {BreakerKey(ct) : ct \in DOMAIN routingTable} |-> NewBreaker]
  /\ settled = IdleCall
  /\ CrmUnused
  /\ ParseUnused
  /\ HealthUnused
  /\ ServicesUnused

NextReconfigure ==
  \/ RouteCommand("scrape")
  \/ \E cl \in InFlight : RejectContinue(cl)
  \/ \E cl \in InFlight, status \in HttpStatuses : HttpRespond(cl, status)
  \/ \E cl \in InFlight : RetryAttempt(cl)
  \/ \E cl \in InFlight : BreakerTimeout(cl)
  \/ \E key \in Commands : HalfOpenTimer(key)
  \/ RotateWindow
  \/ \E loads \in BOOLEAN : configChanges < 1 /\ ReloadEndpoints(loads)
  \/ \E config \in SetInputs : configChanges < 1 /\ SetEndpointConfig("scrape", config)
  \/ configChanges < 1 /\ RemoveEndpointConfig("scrape")

SpecReconfigure == InitReconfigure /\ [][NextReconfigure]_vars

\* transformResponse applied to every response of the model
InitTransform ==
  /\ TransformInit
  /\ routerShutdown = NotShutDown
  /\ MonitorUnused
  /\ ManagerUnused
  /\ RouterInit(RouterMaxConcurrent, RetryAttempts, {"scrape"})
  /\ CrmUnused
  /\ EndpointsUnused
  /\ ParseUnused
  /\ HealthUnused

NextTransform == TransformResponse

SpecTransform == InitTransform /\ [][NextTransform]_vars

\* the health monitor with any listener and any services object, next to a
\* router (maxConcurrentRequests: 1, retryAttempts: 0) serving scrape calls
InitMonitor ==
  /\ MonitorInit
  /\ routerShutdown = NotShutDown
  /\ TransformUnused
  /\ ManagerUnused
  /\ RouterInit(1, 0, {"scrape"})
  /\ CrmUnused
  /\ EndpointsUnused
  /\ ParseUnused
  /\ HealthUnused

NextMonitor ==
  \/ MonitorStart
  \/ MonitorStop
  \/ \E timer \in monitor.scheduled : MonitorTick(timer)
  \/ HealthCheckContinue
  \/ monitor.pending = 0 /\ RouteCommand("scrape")
  \/ \E cl \in InFlight : RejectContinue(cl)
  \/ \E cl \in InFlight, status \in HttpStatuses : monitor.pending = 0 /\ HttpRespond(cl, status)
  \/ \E cl \in InFlight : monitor.pending = 0 /\ BreakerTimeout(cl)
  \/ \E key \in Commands : monitor.pending = 0 /\ HalfOpenTimer(key)
  \/ monitor.pending = 0 /\ RotateWindow

SpecMonitor == InitMonitor /\ [][NextMonitor]_vars

\* once shutdown() has cleared the breakers under calls that are still in
\* flight, the router is not followed any further
Followed ==
  routerShutdown.pc = "complete" => routerShutdown.remainingRequests = 0

\* no call is in flight on the breaker registered under `key`
Unused(key) == \A cl \in InFlight : BreakerKey(cl.cmd) # key

\* the router serving scrape calls (maxConcurrentRequests: 1, retryAttempts: 0)
\* with shutdown() called at any moment of its traffic and
\* removeCircuitBreaker called for the scrape breaker while no call is in
\* flight on it.  No HTTP exchange is bound to
\* finish.  A pending microtask (the continuation of a refused call) runs,
\* and the timer of the wait loop, due again and again, is run by the event
\* loop once the microtasks of the current task are done (strong fairness:
\* a pending microtask holds the timer back only for the moment).
InitRouterShutdown ==
  /\ RouterInit(1, 0, {"scrape"})
  /\ CrmUnused
  /\ AuxUnused

NextRouterShutdown ==
  \/ Followed /\ RouteCommand("scrape")
  \/ Followed /\ \E cl \in InFlight : RejectContinue(cl)
  \/ Followed /\ \E cl \in InFlight, status \in HttpStatuses : HttpRespond(cl, status)
  \/ Followed /\ \E cl \in InFlight : BreakerTimeout(cl)
  \/ Followed /\ \E key \in Commands : HalfOpenTimer(key)
  \/ Followed /\ RotateWindow
  \/ Unused("scrape") /\ RemoveCircuitBreaker("scrape")
  \/ RouterShutdown
  \/ ShutdownPoll

SpecRouterShutdown ==
  /\ InitRouterShutdown
  /\ [][NextRouterShutdown]_vars
  /\ WF_vars(\E cl \in InFlight : RejectContinue(cl))
  /\ SF_vars(ShutdownPoll)

\* the ServiceManager: initialize(), getService() and shutdown() called at
\* any moment, the registered router (maxConcurrentRequests: 1,
\* retryAttempts: 0) serving scrape calls while the manager is initialized.
\* The calls are those of one bucket of the breaker's rolling window: the
\* window is not rotated, and the breaker, short of the volume threshold,
\* stays closed and refuses no call.
InitManager ==
  /\ RouterInit(1, 0, {"scrape"})
  /\ CrmUnused
  /\ AuxUnused

NextManager ==
  \/ ManagerInitialize
  \/ \E serviceName \in ServiceNames \cup {"unknown"} : GetService(serviceName)
  \/ ManagerShutdown
  \/ \E i \in DOMAIN manager.shutdowns, ends \in BOOLEAN : ManagerShutdownPoll(i, ends)
  \/ HealthCheckContinue
  \/ manager.initialized /\ ManagerIdle /\ Followed /\ RouteCommand("scrape")
  \/ \E cl \in InFlight, status \in HttpStatuses :
       ManagerIdle /\ Followed /\ HttpRespond(cl, status)
  \/ \E cl \in InFlight : ManagerIdle /\ Followed /\ BreakerTimeout(cl)
  \/ \E timer \in monitor.scheduled : MonitorTick(timer)

SpecManager == InitManager /\ [][NextManager]_vars

(***************************************************************************)
(* Claims                                                                   *)
(***************************************************************************)
\* C1: in every reachable state of the limiter the number of active requests
\* is at most maxConcurrentRequests and the number of queued entries is at
\* most queueSize (both the collections and the activeCount / queuedCount
\* statistics derived from them).
C1_ConcurrencyInvariant ==
  /\ Cardinality(crmActiveRequests) <= crmConfig.maxConcurrentRequests
  /\ Len(requestQueue) <= crmConfig.queueSize
  /\ crmStats.activeCount <= crmConfig.maxConcurrentRequests
  /\ crmStats.queuedCount <= crmConfig.queueSize

\* the limiter is full on both sides and has already turned a request away
C1_Witness ==
  /\ Cardinality(crmActiveRequests) = crmConfig.maxConcurrentRequests
  /\ Len(requestQueue) = crmConfig.queueSize
  /\ crmConfig.queueSize > 0
  /\ crmStats.rejected
  /\ crmStats.timedOut

\* the breaker of a command, as the manager holds it
BreakerOf(commandType) == circuitBreakers[commandType]

\* C2: a call that fire() found the breaker open for is short-circuited: it
\* never sends an HTTP request, neither while it is suspended nor afterwards.
C2_OpenShortCircuits ==
  \A cl \in Calls :
    cl.firedState = "open" =>
      /\ cl.attempts = 0
      /\ cl.http = "none"
      /\ cl.pc \in {"rejected", "done"}

\* a call that met the open breaker has returned the fallback without any attempt
C2_Witness ==
  /\ settled.firedState = "open"
  /\ settled.outcome = "fallback_circuit_breaker"
  /\ settled.attempts = 0
  /\ BreakerOf(settled.cmd).state = "open"

\* C3: a breaker goes from closed to open only in a step after which its
\* rolling window holds at least volumeThreshold calls of which more than 50%
\* failed; and a failure recorded on a closed breaker whose window then meets
\* both conditions does open it.
C3_ClosedToOpen ==
  [][\A k \in DOMAIN circuitBreakers \cap DOMAIN circuitBreakers' :
       LET old      == circuitBreakers[k]
           new      == circuitBreakers'[k]
           fires    == WindowFires(new.window)
           failures == WindowFailures(new.window)
           tripping == /\ fires >= routerConfig.circuitBreakerThreshold
                       /\ failures * 100 > 50 * fires
       IN /\ (old.state = "closed" /\ new.state = "open") => tripping
          /\ (/\ old.state = "closed"
              /\ failures > WindowFailures(old.window)
              /\ tripping) => new.state = "open"]_vars

\* a breaker has opened on a window that holds the minimum volume
C3_Witness ==
  \E k \in DOMAIN circuitBreakers :
    /\ circuitBreakers[k].state = "open"
    /\ WindowFires(circuitBreakers[k].window) >= routerConfig.circuitBreakerThreshold
    /\ WindowFailures(circuitBreakers[k].window) * 100
         > 50 * WindowFires(circuitBreakers[k].window)
    /\ settled.cmd = k
    /\ settled.failures = 1

\* the number of calls in flight whose record is in S
RECURSIVE InFlightCount(_)
InFlightCount(S) ==
  IF S = {} THEN 0
  ELSE LET cl == CHOOSE x \in S : TRUE
       IN CopiesIn(cl, activeRequests) + InFlightCount(S \ {cl})

\* C4: while a breaker is half-open, the calls it is executing are none before
\* the trial call and exactly one from the trial call on; every other call
\* that found it half-open has sent no HTTP request.
C4_SingleTrial ==
  \A k \in DOMAIN circuitBreakers :
    LET found  == {cl \in InFlight : cl.cmd = k /\ cl.firedState = "halfOpen"}
        trials == {cl \in found : cl.attempts > 0}
    IN /\ InFlightCount(trials) <= 1
       /\ \A cl \in found \ trials : cl.pc = "rejected" /\ cl.http = "none"
       /\ circuitBreakers[k].state = "halfOpen" =>
            /\ {cl \in InFlight : cl.cmd = k /\ cl.pc = "executing"} = trials
            /\ InFlightCount(trials) = IF circuitBreakers[k].pendingClose THEN 0 ELSE 1

\* the trial call is in flight and another call to the endpoint was refused
C4_Witness ==
  \E cl, d \in InFlight :
    /\ cl.pc = "executing" /\ cl.firedState = "halfOpen"
    /\ d.pc = "rejected" /\ d.firedState = "halfOpen"
    /\ cl.cmd = d.cmd
    /\ BreakerOf(cl.cmd).state = "halfOpen"

\* C5: when the trial call of a half-open breaker settles, a success leaves
\* the breaker closed (calls are admitted again) and a failure or timeout
\* leaves it open with a newly started reset timer (calls are refused again).
C5_TrialDecides ==
  [][(/\ settled'.pc = "done"
      /\ settled'.firedState = "halfOpen"
      /\ settled'.attempts > 0)
     => LET br == circuitBreakers'[settled'.cmd]
        IN IF settled'.successes = 1
           THEN br.state = "closed" /\ BreakerAdmits(br)
           ELSE br.state = "open" /\ br.resetTimer /\ ~BreakerAdmits(br)]_vars

\* a trial call has succeeded and its breaker is closed
C5_Witness ==
  /\ settled.firedState = "halfOpen"
  /\ settled.outcome = "result"
  /\ BreakerOf(settled.cmd).state = "closed"

\* the commands of the calls that take the step: the calls that enter, leave
\* or move within activeRequests, and the call that returns
ActedCommands ==
  {cl.cmd : cl \in {x \in InFlight \cup BagToSet(activeRequests') :
                      CopiesIn(x, activeRequests) # CopiesIn(x, activeRequests')}}
  \cup (IF settled'.pc = "done" THEN {settled'.cmd} ELSE {})

\* C6: a step of a routeCommand call (its start, an HTTP answer, a retry, a
\* timeout, its settlement) changes no breaker other than the one of the
\* call's own command type.
C6_Isolation ==
  [][(activeRequests' # activeRequests \/ settled'.pc = "done") =>
       \A k \in DOMAIN circuitBreakers :
         k \notin ActedCommands => circuitBreakers'[k] = circuitBreakers[k]]_vars

\* scrape's breaker is open while a call to analyze got its result
C6_Witness ==
  /\ circuitBreakers["scrape"].state = "open"
  /\ circuitBreakers["analyze"].state = "closed"
  /\ settled.cmd = "analyze"
  /\ settled.outcome = "result"
  /\ settled.firedState = "closed"

\* C7: a call the breaker executed has one recorded outcome once it settled,
\* and none before, however many HTTP attempts it made.
C7_OneOutcomePerCall ==
  \A cl \in Calls :
    /\ (cl.pc = "executing") => cl.successes + cl.failures = 0
    /\ (cl.pc = "done" /\ cl.attempts > 0) => cl.successes + cl.failures = 1

\* a call failed after a retry and counts as one failure
C7_Witness ==
  /\ settled.attempts > 1
  /\ settled.lastStatus = "503"
  /\ settled.failures = 1
  /\ settled.successes = 0

\* C8 (as claimed): a call answered 4xx made exactly one attempt, and no call
\* makes more than 1 + maxRetries attempts, maxRetries being the retries of
\* its endpoint's configuration.
C8_AttemptsPerEndpointRetries ==
  \A cl \in Calls :
    cl.cmd \in DOMAIN routingTable =>
      /\ (cl.http = "finished" /\ cl.lastStatus = "4xx") => cl.attempts = 1
      /\ cl.attempts <= 1 + routingTable[cl.cmd].retries

\* C9 (as claimed): a call for a command that is not in the routing table
\* ends with the not-configured error and without any HTTP attempt.
C9_UnknownIsNotConfigured ==
  \A cl \in Calls :
    (cl.pc = "done" /\ cl.cmd \in Commands \ DOMAIN routingTable) =>
      /\ cl.outcome \in {"error_no_endpoint", "error_command_is_not_configured"}
      /\ cl.attempts = 0

\* C10 (as claimed): a call for a command whose entry has enabled = false ends
\* with the error whose reason is `disabled` and without any HTTP attempt.
C10_DisabledIsDisabled ==
  \A cl \in Calls :
    (/\ cl.pc = "done"
     /\ cl.cmd \in DOMAIN routingTable
     /\ ~routingTable[cl.cmd].enabled) =>
      /\ cl.outcome = "error_command_is_disabled"
      /\ cl.attempts = 0

\* C11 (as claimed): a call for a command that is unknown or disabled ends with
\* the configuration error whatever the number of active requests, and the
\* step leaves activeRequests and every breaker unchanged.
C11_RejectedAtResolution ==
  [][(settled'.pc = "done" /\ ~Routable(settled'.cmd)) =>
       /\ settled'.outcome \in {"error_no_endpoint", "error_command_is_not_configured",
                                "error_command_is_disabled"}
       /\ activeRequests' = activeRequests
       /\ circuitBreakers' = circuitBreakers]_vars

\* C12 (as claimed): a call for a routable command that arrives while
\* activeRequests is at maxConcurrentRequests returns, without throwing and
\* without any HTTP attempt, a capacity fallback envelope (fallback:true,
\* status 429 or 503), and the calls in flight are left as they are.
C12_CapacityFallback ==
  [][(/\ ActiveSize(activeRequests) >= routerConfig.maxConcurrentRequests
      /\ settled'.pc = "done"
      /\ settled'.firedState = "none"
      /\ Routable(settled'.cmd)) =>
       /\ settled'.outcome \notin ThrownOutcomes
       /\ Returned(settled') \in {createRateLimitFallback, createServiceUnavailableFallback}
       /\ settled'.attempts = 0
       /\ activeRequests' = activeRequests]_vars

\* C13 (as claimed): a call the breaker refused without executing it (open,
\* or half-open with the trial call in flight) returned the circuit-open
\* fallback envelope (status 503, type circuit_breaker_open, fallback:true).
C13_RefusedGetsFallback ==
  (/\ settled.pc = "done"
   /\ settled.firedState \in {"open", "halfOpen"}
   /\ settled.attempts = 0) =>
    /\ settled.outcome \notin ThrownOutcomes
    /\ Returned(settled) = createCircuitBreakerFallback

\* C14 (as claimed): a call for a routable command never rejects with the raw
\* error of a 5xx answer that survived the retries or of a timeout; the 5xx
\* answer is returned as an envelope with success:false and type server_error.
C14_NoRawTransportError ==
  (settled.pc = "done" /\ Routable(settled.cmd)) =>
    /\ ~(settled.outcome = "error_http" /\ settled.lastStatus = "503")
    /\ settled.outcome # "error_breaker_timeout"
    /\ (settled.http = "finished" /\ settled.lastStatus = "503") =>
         Returned(settled) = transformResponse(StatusCode("503"))

\* C15 (as claimed): a call whose downstream answered 4xx returned the error
\* envelope of that answer: success:false, no fallback flag, type client_error,
\* status equal to the downstream status.
C15_ClientErrorEnvelope ==
  (/\ settled.pc = "done"
   /\ settled.http = "finished"
   /\ settled.lastStatus = "4xx") =>
    /\ settled.outcome \notin ThrownOutcomes
    /\ Returned(settled) = transformResponse(StatusCode("4xx"))

\* C16: the step in which an admitted call settles (result, fallback or error)
\* takes exactly one entry out of activeRequests, no other step takes one
\* out, and activeRequests holds suspended calls only.
C16_SlotReleased ==
  [][/\ (settled'.pc = "done" /\ settled'.firedState # "none") =>
          ActiveSize(activeRequests') = ActiveSize(activeRequests) - 1
     /\ ~(settled'.pc = "done" /\ settled'.firedState # "none") =>
          ActiveSize(activeRequests') >= ActiveSize(activeRequests)
     /\ \A cl \in BagToSet(activeRequests') : cl.pc \in {"executing", "rejected"}]_vars

\* the last call in flight has thrown and activeRequests is empty
C16_Witness ==
  /\ settled.pc = "done"
  /\ settled.firedState # "none"
  /\ settled.outcome \in ThrownOutcomes
  /\ ActiveSize(activeRequests) = 0

\* C17: activeRequests never holds more than maxConcurrentRequests calls.
C17_RouterConcurrencyBound ==
  ActiveSize(activeRequests) <= routerConfig.maxConcurrentRequests

\* the router is full and has just turned a call away
C17_Witness ==
  /\ ActiveSize(activeRequests) = routerConfig.maxConcurrentRequests
  /\ settled.outcome = "error_max_concurrent"

\* a step in which executeRequest is called: the only event is the one of
\* the new request (started immediately, queued or rejected)
Arrival ==
  /\ Len(crmEvents') = 1
  /\ crmEvents'[1].type \in {"request:started", "request:queued", "request:rejected"}

\* C18: a queued request that starts executing is the head of the queue, a
\* newly arriving request is started only when nobody waits in the queue, and
\* the requests that stay in the queue keep their order, new ones going to
\* the end.
C18_QueueIsFifo ==
  [][/\ \A i \in CrmIds :
          (reqStatus[i] = "queued" /\ reqStatus'[i] = "running") =>
            (requestQueue # <<>> /\ i = Head(requestQueue))
     /\ (Arrival /\ crmEvents'[1].type = "request:started") => requestQueue = <<>>
     /\ \A m, n \in 1..Len(requestQueue') :
          (m < n /\ requestQueue'[n] \in QueueEntries(requestQueue)) =>
            /\ requestQueue'[m] \in QueueEntries(requestQueue)
            /\ QueuePlace(requestQueue, requestQueue'[m])
                 < QueuePlace(requestQueue, requestQueue'[n])]_vars

\* the head of a queue of two was dequeued and started; the second still waits
C18_Witness ==
  /\ Len(crmEvents) = 3
  /\ crmEvents[2].type = "request:dequeued"
  /\ crmEvents[3] = Event("request:started", crmEvents[2].requestId)
  /\ Len(requestQueue) >= 1
  /\ reqStatus[crmEvents[2].requestId] = "running"

\* C19: the queue timeout of a waiting request takes it out of the queue and
\* rejects it with the timeout error, whatever the active requests are doing
\* and without touching them; a timed-out request is neither queued nor
\* active, and only a new executeRequest call can run its id again.
C19_QueueTimeout ==
  [][\A i \in CrmIds :
       /\ reqStatus'[i] = "timeout" =>
            (i \notin QueueEntries(requestQueue') /\ i \notin crmActiveRequests')
       /\ (reqStatus[i] = "queued" /\ reqStatus'[i] = "timeout") =>
            /\ crmEvents' = <<Event("request:timeout", i)>>
            /\ crmActiveRequests' = crmActiveRequests
            /\ crmStats'.timedOut
       /\ (reqStatus[i] = "timeout" /\ reqStatus'[i] = "running") =>
            crmEvents' = <<Event("request:started", i)>>]_vars

\* a request timed out in the queue while every slot was taken and another
\* request kept waiting
C19_Witness ==
  /\ Len(crmEvents) = 1
  /\ crmEvents[1].type = "request:timeout"
  /\ reqStatus[crmEvents[1].requestId] = "timeout"
  /\ Cardinality(crmActiveRequests) = crmConfig.maxConcurrentRequests
  /\ Len(requestQueue) >= 1

\* C20: executeRequest called while every slot is taken and the queue is
\* full (or queuing is disabled) is rejected in that same step with the
\* capacity error: the request is not started, and the active set and the
\* queue stay as they are.
C20_RejectedWhenFull ==
  [][(/\ Arrival
      /\ Cardinality(crmActiveRequests) >= crmConfig.maxConcurrentRequests
      /\ (~crmConfig.enableQueuing \/ Len(requestQueue) >= crmConfig.queueSize)) =>
       /\ crmEvents'[1].type = "request:rejected"
       /\ reqStatus'[crmEvents'[1].requestId] = "rejected"
       /\ crmEvents'[1].requestId \notin crmActiveRequests'
       /\ crmActiveRequests' = crmActiveRequests
       /\ requestQueue' = requestQueue
       /\ crmStats'.rejected]_vars

\* a request was rejected by a limiter whose slots and (non-empty) queue are full
C20_Witness ==
  /\ Len(crmEvents) = 1
  /\ crmEvents[1].type = "request:rejected"
  /\ reqStatus[crmEvents[1].requestId] = "rejected"
  /\ crmConfig.enableQueuing
  /\ crmConfig.queueSize > 0
  /\ Len(requestQueue) = crmConfig.queueSize
  /\ Cardinality(crmActiveRequests) = crmConfig.maxConcurrentRequests

\* the step is a call of shutdown()
ShutdownStep == crmEvents' = <<Event("manager:shutdown", 0)>>

\* C21: shutdown() rejects every entry of the queue with the shutdown error,
\* cancels its timer and leaves the queue empty, and the request functions
\* in flight go on running (it does not wait for them); afterwards a request
\* rejected by shutdown is not timed out, and runs again only through a new
\* executeRequest call.
C21_ShutdownRejectsQueued ==
  [][/\ ShutdownStep =>
          /\ \A i \in QueueEntries(requestQueue) :
                reqStatus'[i] = "shutdown" /\ i \notin queueTimers'
          /\ requestQueue' = <<>>
          /\ RunningFunctions' = RunningFunctions
     /\ \A i \in CrmIds :
          reqStatus[i] = "shutdown" =>
            /\ crmEvents' # <<Event("request:timeout", i)>>
            /\ reqStatus'[i] = "running" => crmEvents' = <<Event("request:started", i)>>]_vars

\* shutdown() has just rejected a waiting request while others were in flight
C21_Witness ==
  /\ crmEvents = <<Event("manager:shutdown", 0)>>
  /\ \E i \in CrmIds : reqStatus[i] = "shutdown"
  /\ RunningFunctions # {}
  /\ requestQueue = <<>>
  /\ queueTimers = {}
  /\ crmActiveRequests = {}

\* request id, tracked in activeRequests, settles in this step
CompletesActive(id) ==
  /\ id \in crmActiveRequests
  /\ reqStatus[id] = "running"
  /\ reqStatus'[id] \in {"completed", "failed"}

\* C27: when a request of activeRequests completes (success or failure) while
\* the queue is not empty, the head of the queue starts executing in the
\* same step; no entry waits while a slot is free; and if every started
\* request eventually completes, every queued request eventually leaves the
\* queue (started, timed out or rejected by shutdown).
C27_CompletionStartsHead ==
  /\ [](requestQueue # <<>> => ~canExecuteImmediately(crmActiveRequests, crmConfig))
  /\ [][\A id \in CrmIds :
          (CompletesActive(id) /\ requestQueue # <<>>) =>
             /\ reqStatus'[Head(requestQueue)] = "running"
             /\ Head(requestQueue) \in crmActiveRequests'
             /\ requestQueue' = Tail(requestQueue)]_vars
  /\ \A i \in CrmIds : (reqStatus[i] = "queued") ~> (reqStatus[i] # "queued")

\* a failed request has just handed its slot to the head of the queue, and
\* another request is still waiting behind it
C27_Witness ==
  /\ Len(crmEvents) = 3
  /\ crmEvents[1].type = "request:failed"
  /\ crmEvents[2].type = "request:dequeued"
  /\ reqStatus[crmEvents[2].requestId] = "running"
  /\ requestQueue # <<>>

\* the way request i left the queue in this step, as the events tell it
SettledBy(i) ==
  {m \in {"dequeue", "timeout", "shutdown"} :
     \/ m = "dequeue" /\ Len(crmEvents') = 3 /\ crmEvents'[2] = Event("request:dequeued", i)
     \/ m = "timeout" /\ crmEvents' = <<Event("request:timeout", i)>>
     \/ m = "shutdown" /\ ShutdownStep}

\* C28: a parked request is settled exactly once, by exactly one of dequeue,
\* queue timeout and shutdown: the waiting requests are exactly the entries
\* of the queue, a timer is pending only for an entry of the queue, a
\* request leaves the queue by one mechanism whose result it gets, a timeout
\* fires only for a waiting entry, and a request that timed out or was
\* rejected by shutdown runs only through a new executeRequest call.
C28_SettledExactlyOnce ==
  /\ [](/\ QueueEntries(requestQueue) = {i \in CrmIds : reqStatus[i] = "queued"}
        /\ Len(requestQueue) = Cardinality(QueueEntries(requestQueue))
        /\ queueTimers \subseteq QueueEntries(requestQueue))
  /\ [][\A i \in CrmIds :
          /\ (reqStatus[i] = "queued" /\ reqStatus'[i] # "queued") =>
                /\ Cardinality(SettledBy(i)) = 1
                /\ reqStatus'[i] = "running" <=> SettledBy(i) = {"dequeue"}
                /\ reqStatus'[i] = "timeout" <=> SettledBy(i) = {"timeout"}
                /\ reqStatus'[i] = "shutdown" <=> SettledBy(i) = {"shutdown"}
                /\ i \notin queueTimers'
          /\ crmEvents' = <<Event("request:timeout", i)>> => reqStatus[i] = "queued"
          /\ (reqStatus[i] \in {"timeout", "shutdown"} /\ reqStatus'[i] # reqStatus[i]) =>
                crmEvents' \in {<<Event("request:started", i)>>, <<Event("request:queued", i)>>,
                                <<Event("request:rejected", i)>>}]_vars

\* one request timed out in the queue and a later one was dequeued and runs
C28_Witness ==
  /\ Len(crmEvents) = 3
  /\ crmEvents[2].type = "request:dequeued"
  /\ \E i \in CrmIds : reqStatus[i] = "timeout"
  /\ crmStats.timedOut

\* C29: the request functions started and not yet settled never number more
\* than maxConcurrentRequests, shutdown() included.
C29_RunningWithinLimit ==
  Cardinality(RunningFunctions) <= crmConfig.maxConcurrentRequests

\* C30 (as claimed): routeCommand returns the circuit-open fallback only for
\* a call the breaker short-circuited, for which no HTTP attempt was made.
C30_FallbackOnlyWhenShortCircuited ==
  (settled.pc = "done" /\ settled.outcome = "fallback_circuit_breaker") =>
    settled.attempts = 0

\* the value the claimed precedence gives field f of commandType: the
\* environment variable, else the override block, else the base entry,
\* else the hard-coded default
Precedence(file, env, commandType, f) ==
  LET base     == ConfigOf(file.endpoints, commandType)
      override == OverrideOf(file.overrides, commandType)
  IN IF f = "url" /\ commandType \in DOMAIN env.endpointUrls
     THEN env.endpointUrls[commandType]
     ELSE IF f = "timeout" /\ commandType \in DOMAIN env.endpointTimeouts
     THEN env.endpointTimeouts[commandType]
     ELSE IF f \in DOMAIN override THEN override[f]
     ELSE IF f \in DOMAIN base THEN base[f]
     ELSE SchemaDefaults[f]

\* C22 (as claimed): while the endpoints are those loaded from the
\* configuration, every field of the endpoint a command is routed to has the
\* value of the environment variable if there is one, else of the override
\* block, else of the base entry, else the default.
C22_ConfigPrecedence ==
  endpointsConfig = GetAllEndpoints(configFile, envVariables) =>
    \A ct \in Keys(configFile.endpoints) :
      RoutedEndpoint(routingTable, ct) # Null =>
        \A f \in {"url", "timeout", "retries"} :
          RoutedEndpoint(routingTable, ct)[f] = Precedence(configFile, envVariables, ct, f)

\* C23: in every routing table buildRoutingTable produces, each entry's
\* commandType is the key it is stored under, whatever commandType field the
\* configuration carried, and a lookup of a key that is not in the table
\* answers not-found at every level (getRoute, getEndpointConfig,
\* routeCommand, isCommandSupported).
C23_KeysMatchEntries ==
  /\ \A k \in DOMAIN routingTable : routingTable[k].commandType = k
  /\ \A i \in DOMAIN registered :
       \A k \in DOMAIN registered[i] : registered[i][k].commandType = k
  /\ \A ct \in Commands \ DOMAIN routingTable :
       /\ getRoute(routingTable, ct) = Null
       /\ getEndpointConfig(routingTable, ct) = Null
       /\ EndpointRouteCommand(routingTable, ct) = Null
       /\ RoutedEndpoint(routingTable, ct) = Null
       /\ isCommandSupported(routingTable, ct) = [supported |-> FALSE, reason |-> "not_configured"]

\* a table rebuilt from a configuration that carries a foreign commandType
\* field, with a command that is not in the table
C23_Witness ==
  /\ configChanges > 0
  /\ \E k \in Keys(endpointsConfig) :
       /\ "commandType" \in DOMAIN ConfigOf(endpointsConfig, k)
       /\ ConfigOf(endpointsConfig, k).commandType # k
       /\ routingTable[k].commandType = k
  /\ Commands \ DOMAIN routingTable # {}

\* C24 (as claimed): whenever a listener of route:registered runs during a
\* rebuild, the table it reads is the complete old table or the complete
\* new one.
C24_NoPartialTable ==
  [][\A i \in DOMAIN registered' : registered'[i] \in {routingTable, routingTable'}]_vars

\* the object a body carries: the body itself, or what its text parses to
BodyObject(data) ==
  IF IsObject(data) THEN data
  ELSE IF data.t = "string" THEN JSONParse(data.v)
  ELSE SyntaxError

\* value b has everything value a has (fields may have been added to b)
SameApartFromAdded(a, b) ==
  IF IsPrimitive(a) THEN b = a
  ELSE IsObject(b) /\ \A g \in DOMAIN a : g \in DOMAIN b /\ b[g] = a[g]

\* C25 (as claimed): for a body that is a JSON object, or a string that
\* parses to one, data equals the parsed object on every field of the body
\* (normalization only adds fields), and for a string body that is not
\* valid JSON data is exactly {content: <the string>, type: "text"}.
C25_ParseRoundTrip ==
  parsed # NotParsed =>
    LET body == response.data
        obj  == BodyObject(body)
    IN /\ IsObject(obj) =>
            /\ IsObject(parsed)
            /\ \A f \in DOMAIN obj : f \in DOMAIN parsed /\ SameApartFromAdded(obj[f], parsed[f])
       /\ (IsPrimitive(body) /\ body.t = "string" /\ obj = SyntaxError) =>
            parsed = [content |-> body, type |-> JsString("text")]

\* the step belongs to a health check
HealthStep == probe' # probe \/ probeResult' # probeResult

\* C26 (as claimed): a health check fires no breaker and changes none,
\* leaves activeRequests as it is, makes one HTTP attempt and no more, and
\* ends with a structured healthy/unhealthy result.
C26_HealthCheckBypasses ==
  [][HealthStep =>
       /\ circuitBreakers' = circuitBreakers
       /\ activeRequests' = activeRequests
       /\ probe'.attempts <= 1
       /\ probe' = IdleProbe => (probeResult'.healthy <=> probeResult'.error = "none")
       /\ probeResult'.attempts <= 1]_vars
\* C31: every HTTP attempt of a routeCommand call, the retries included, is
\* sent with the request configuration (method, url, timeout, headers) the
\* call built when it resolved its route, whatever was done to the routing
\* table since
C31_AttemptsUseResolvedConfig ==
  \A cl \in InFlight :
    cl.pc = "executing" => /\ cl.requestConfig # NoRequest
                           /\ cl.sent = cl.requestConfig

\* a retry is on the wire for a command whose route was changed or removed
\* after the call resolved it
C31_Witness ==
  \E cl \in InFlight :
    /\ cl.http = "inflight"
    /\ cl.attempts >= 2
    /\ RequestConfig(routingTable, cl.cmd) # cl.requestConfig
    /\ RequestConfig(routingTable, "scrape") = NoRequest

\* the events of a call that summarize its outcome
LifecycleEvents == {"command:routed", "command:error", "circuit:fallback"}

EventCount(events, types) == Cardinality({i \in DOMAIN events : events[i] \in types})

\* C32: a routeCommand call that returned or threw has emitted exactly one
\* of command:routed (a transformed result was returned), command:error (the
\* call rejected) and circuit:fallback (the fallback envelope was returned),
\* as its last event; command:routing is emitted once, first, by the calls
\* that passed the capacity check and the route resolution and by no other,
\* and a call with an HTTP attempt under way has emitted it and nothing else
C32_OneLifecycleEvent ==
  /\ \A cl \in InFlight : cl.events = <<"command:routing">>
  /\ settled.pc = "done" =>
       /\ EventCount(settled.events, LifecycleEvents) = 1
       /\ settled.events[Len(settled.events)] =
            (IF Returned(settled) = NoEnvelope THEN "command:error"
             ELSE IF Returned(settled).fallback THEN "circuit:fallback"
             ELSE "command:routed")
       /\ settled.outcome \in ThrownOutcomes <=> Returned(settled) = NoEnvelope
       /\ EventCount(settled.events, {"command:routing"}) =
            (IF settled.outcome \in {"error_max_concurrent", "error_no_endpoint",
                                      "error_command_is_not_configured",
                                      "error_command_is_disabled"}
             THEN 0 ELSE 1)
       /\ settled.events[1] = "command:routing" \/ Len(settled.events) = 1

\* a call whose failure opened the breaker returned the fallback: it emitted
\* command:routing and circuit:fallback
C32_Witness ==
  /\ settled.pc = "done"
  /\ settled.attempts >= 1
  /\ Returned(settled) = createCircuitBreakerFallback
  /\ settled.events = <<"command:routing", "circuit:fallback">>

\* shutdown() goes on: it enters its wait loop, a poll of the loop passes, or
\* it completes
ShutdownAdvances == routerShutdown' # routerShutdown

\* C33: a shutdown() that waits completes eventually, after at most
\* ShutdownTimeoutPolls polls, whether or not the calls in flight finish and
\* whether or not new calls arrive; it completes at the first evaluation of
\* its loop condition that finds activeRequests empty, and not before the
\* time is over otherwise; on completion the map of breakers is empty and
\* remainingRequests is the number of calls still in flight
C33_ShutdownTerminates ==
  /\ routerShutdown.pc = "waiting" ~> routerShutdown.pc = "complete"
  /\ [](routerShutdown.polls <= ShutdownTimeoutPolls)
  /\ [][ShutdownAdvances =>
          /\ ActiveSize(activeRequests) = 0 => routerShutdown'.pc = "complete"
          /\ routerShutdown'.pc = "complete" =>
               /\ ActiveSize(activeRequests) = 0
                    \/ routerShutdown'.polls = ShutdownTimeoutPolls
               /\ DOMAIN circuitBreakers' = {}
               /\ routerShutdown'.remainingRequests = ActiveSize(activeRequests')]_vars

\* shutdown() completed when its time was over, with a call still in flight
C33_Witness ==
  /\ routerShutdown.pc = "complete"
  /\ routerShutdown.polls = ShutdownTimeoutPolls
  /\ routerShutdown.remainingRequests = 1
  /\ ActiveSize(activeRequests) = 1

\* C34: a reloadEndpoints whose configuration load fails leaves every
\* command that was routable before it routable, with the same endpoint
C34_FailedReloadKeepsTable ==
  [][ReloadEndpoints(FALSE) =>
       \A ct \in Commands :
         RoutedEndpoint(routingTable, ct) # Null =>
           RoutedEndpoint(routingTable', ct) = RoutedEndpoint(routingTable, ct)]_vars

\* the call a step hands to a breaker: the one routeCommand added to
\* activeRequests
FiredCalls == BagToSet(activeRequests' (-) activeRequests)

\* C35: the map holds one breaker per command type; a routeCommand call for
\* a command type whose breaker is registered fires that breaker, so the
\* breaker's state is kept and its window goes on counting from what the
\* earlier calls left, and a new breaker is created only when none is
\* registered; a registered breaker leaves the map only by
\* removeCircuitBreaker or by the manager's shutdown
C35_OneBreakerPerCommand ==
  /\ [](DOMAIN circuitBreakers \subseteq {BreakerKey(ct) : ct \in Commands})
  /\ [][ActiveSize(activeRequests') = ActiveSize(activeRequests) + 1 =>
          \A cl \in FiredCalls :
            LET key == BreakerKey(cl.cmd)
            IN /\ key \in DOMAIN circuitBreakers'
               /\ key \in DOMAIN circuitBreakers =>
                    /\ circuitBreakers'[key] = BreakerFire(circuitBreakers[key])
                    /\ cl.firedState = circuitBreakers[key].state
                    /\ WindowFailures(circuitBreakers'[key].window) =
                         WindowFailures(circuitBreakers[key].window)
               /\ key \notin DOMAIN circuitBreakers =>
                    circuitBreakers'[key] = BreakerFire(NewBreaker)]_vars
  /\ [][\A key \in DOMAIN circuitBreakers :
          key \notin DOMAIN circuitBreakers' =>
            \/ RemoveCircuitBreaker(key)
            \/ routerShutdown.pc # "complete" /\ routerShutdown'.pc = "complete"]_vars

\* after a shutdown emptied the map, a call is in flight on the breaker a
\* later call created, whose window holds the failure of that earlier call
C35_Witness ==
  /\ routerShutdown.pc = "complete"
  /\ \E cl \in InFlight :
       /\ cl.pc = "executing"
       /\ BreakerKey(cl.cmd) \in DOMAIN circuitBreakers
       /\ WindowFailures(circuitBreakers[BreakerKey(cl.cmd)].window) >= 1

\* x is a property of the body that holds a truthy value
Has(body, x) == IsObject(body) /\ x \in DOMAIN body /\ Truthy(body[x])
IsString(body) == IsPrimitive(body) /\ body.t = "string"

\* C36 as stated: for a response with status >= 400 the envelope has
\* success false and data null, its message is the body when the body is a
\* string, else the body's message field, else its error field, else the
\* status text, and its type is client_error below 500 and server_error from
\* 500 on
C36_ErrorEnvelopeAsStated ==
  (transformed # NotTransformed /\ httpResponse.status >= 400) =>
    LET body == httpResponse.data
    IN /\ ~transformed.success
       /\ transformed.data = JsNull
       /\ transformed.error.type =
            (IF httpResponse.status < 500 THEN "client_error" ELSE "server_error")
       /\ transformed.error.message =
            (IF IsString(body) THEN body
             ELSE IF IsObject(body) /\ "message" \in DOMAIN body THEN body.message
             ELSE IF IsObject(body) /\ "error" \in DOMAIN body THEN body.error
             ELSE httpResponse.statusText)

\* C36 as amended: the message is the body when the body is a non-empty
\* string, else the body's message field when that is truthy, else its
\* error field when that is truthy, else the status text, and
\* "HTTP <status> Error" when the status text is empty
C36_ErrorEnvelope ==
  (transformed # NotTransformed /\ httpResponse.status >= 400) =>
    LET body == httpResponse.data
        code == httpResponse.status
    IN /\ ~transformed.success
       /\ transformed.data = JsNull
       /\ transformed.error.code = code
       /\ code < 500 => transformed.error.type = "client_error"
       /\ code >= 500 => transformed.error.type = "server_error"
       /\ (IsString(body) /\ body.v # "") => transformed.error.message = body
       /\ Has(body, "message") => transformed.error.message = body.message
       /\ (Has(body, "error") /\ ~Has(body, "message")) =>
            transformed.error.message = body.error
       /\ ~(IsString(body) /\ body.v # "") /\ ~Has(body, "message") /\ ~Has(body, "error") =>
            /\ httpResponse.statusText.v # "" =>
                 transformed.error.message = httpResponse.statusText
            /\ httpResponse.statusText.v = "" =>
                 transformed.error.message.v \in {"HTTP 400 Error", "HTTP 404 Error",
                   "HTTP 499 Error", "HTTP 500 Error", "HTTP 503 Error"}

\* a 503 whose body has an empty message and an error text: the message of
\* the envelope is the error text
C36_Witness ==
  /\ httpResponse.status = 503
  /\ httpResponse.data = [message |-> JsString(""), error |-> JsString("the error")]
  /\ transformed.error = [code |-> 503, message |-> JsString("the error"),
                          type |-> "server_error"]

\* C37: performHealthCheck reports overall healthy exactly when every
\* monitored service is healthy; and a check of the router, the request
\* handler and the circuit breaker manager reports the circuit-breaker
\* service operational and the overall status healthy when no breaker is
\* open, and the circuit-breaker service not healthy and the overall status
\* unhealthy when a breaker is open.
C37_HealthFollowsBreakers ==
  /\ [](monitor.results.overall.healthy
          <=> \A n \in DOMAIN monitor.results.services :
                monitor.results.services[n].healthy)
  /\ [][(HealthCheckContinue /\ MonitorServices \subseteq monitor.services)
          => LET results == monitor'.results
                 open == \E k \in DOMAIN circuitBreakers : circuitBreakers[k].state = "open"
             IN  IF open
                 THEN /\ ~results.services["circuitBreaker"].healthy
                      /\ results.overall.status = "unhealthy"
                 ELSE /\ results.services["circuitBreaker"].status = "operational"
                      /\ results.overall.status = "healthy"]_vars

\* C38: at most one interval timer of the monitor is scheduled, and
\* isMonitoring is true exactly when one is, whatever startMonitoring and
\* stopMonitoring calls were made, calls from a listener of the monitor's
\* events included.
C38_OneTimerWhileMonitoring ==
  /\ Cardinality(monitor.scheduled) <= 1
  /\ monitor.isMonitoring <=> monitor.scheduled # {}

\* C39: initialize() on an initialized manager fails with 'Services already
\* initialized' and changes nothing; getService() fails while the manager is
\* not initialized, which it is before the first initialize() and at the end
\* of every shutdown(); shutdown() on an uninitialized manager changes
\* nothing; initialize() on an uninitialized manager, after a shutdown()
\* too, is accepted and registers instances that never existed before.
ShutdownEnds == returned'.op = "shutdown" /\ returned'.outcome = "complete"
C39_ManagerLifecycle ==
  /\ [](manager.initialized => DOMAIN manager.services = ServiceNames)
  /\ [](~manager.initialized => manager.services = NoServices)
  /\ [][(ManagerInitialize /\ manager.initialized)
          => /\ returned'.outcome = "Services already initialized"
             /\ UNCHANGED <<manager, monitor, routerVars, crmVars>>]_vars
  /\ [][\A serviceName \in ServiceNames :
          (GetService(serviceName) /\ ~manager.initialized)
            => returned'.outcome = "Services not initialized. Call initialize() first."]_vars
  /\ [][((ManagerShutdown \/ \E i \in DOMAIN manager.shutdowns, ends \in BOOLEAN :
                                ManagerShutdownPoll(i, ends)) /\ ShutdownEnds)
          => ~manager'.initialized]_vars
  /\ [][(ManagerShutdown /\ ~manager.initialized)
          => UNCHANGED <<manager, monitor, routerVars, crmVars>>]_vars
  /\ [][(ManagerInitialize /\ ~manager.initialized)
          => /\ manager'.initialized
             /\ returned'.outcome = "initialized"
             /\ \A n \in ServiceNames : manager'.services[n] > manager.created]_vars

\* a second initialize() was accepted after a shutdown() that had to wait
\* for the router
C39_Witness ==
  /\ manager.initialized
  /\ manager.created = 2
  /\ returned.op = "initialize"
  /\ returned.outcome = "initialized"
  /\ routerShutdown = NotShutDown

====
